---- MODULE Spec2Model ----
(***************************************************************************)
(* Ballancier: the physics step (physics.mjs), the narrow-phase collision  *)
(* detector (collision.mjs) and the host frame loop (main.mjs).            *)
(*                                                                         *)
(* JavaScript numbers are modelled in fixed point:                         *)
(*   lengths and velocities   in 1/Scale     (0.001 px, 0.001 px/step)     *)
(*   unit vectors             in 1/NScale    (nx, ny, tx, ty, dx, dy)      *)
(*   dimensionless factors    in 1/FracScale (friction, restitution, ...)  *)
(*   angular velocities       in 1/WScale    rad/step                      *)
(*   angles                   in 1/AScale    rad                           *)
(* Every product or quotient is rounded to the nearest representable       *)
(* value, half away from zero.  In a product of two lengths (closest-point *)
(* projection) the segment's direction is rounded to 0.01 px, and so is    *)
(* the other operand where the product would not stay below 2^31.          *)
(***************************************************************************)
EXTENDS Integers, Sequences, FiniteSets, TLC

\* ------------------------------------------------------------------------
\* Number representation
\* ------------------------------------------------------------------------
Scale == 1000
NScale == 10000
FracScale == 1000
WScale == 1000

Abs(a) == IF a < 0 THEN -a ELSE a

Sgn(a) == IF a < 0 THEN -1 ELSE IF a > 0 THEN 1 ELSE 0

Min(a, b) == IF a <= b THEN a ELSE b

Max(a, b) == IF a >= b THEN a ELSE b

\* n / d for d > 0, rounded to nearest
RoundDiv(n, d) == IF n >= 0 THEN (n + d \div 2) \div d ELSE -((-n + d \div 2) \div d)

RECURSIVE Newton(_, _)
Newton(n, x) ==
  LET y == (x + n \div x) \div 2
  IN  IF y >= x THEN x ELSE Newton(n, y)

\* Math.sqrt on a non-negative integer, rounded to nearest
Isqrt(n) ==
  IF n <= 0 THEN 0
  ELSE LET s == Newton(n, 46340)
       IN  IF n - s * s > s THEN s + 1 ELSE s

\* <<carry, (r + b) mod c>> for 0 <= r < c and 0 <= b <= c, without forming r + b
AddMod(r, b, c) == IF r >= c - b THEN <<1, r - (c - b)>> ELSE <<0, r + b>>

\* quotient and remainder of (2 * a2 + odd) * b / c from the quotient q of a2 * b / c and
\* its doubled remainder d
DoubleQR(q, d, odd, b, c) ==
  IF odd = 1
  THEN <<2 * q + d[1] + AddMod(d[2], b, c)[1], AddMod(d[2], b, c)[2]>>
  ELSE <<2 * q + d[1], d[2]>>

MulDivStep(h, odd, b, c) == DoubleQR(h[1], AddMod(h[2], h[2], c), odd, b, c)

\* a * b / c for 0 <= a, 0 <= b <= c, c > 0 as <<quotient, remainder>>, without
\* forming the product a * b
RECURSIVE MulDivQR(_, _, _)
MulDivQR(a, b, c) ==
  IF a = 0 THEN <<0, 0>>
  ELSE MulDivStep(MulDivQR(a \div 2, b, c), a % 2, b, c)

\* a * b / c rounded to nearest, for 0 <= b <= c
MulDiv(a, b, c) ==
  LET qr == MulDivQR(Abs(a), b, c)
      q  == IF qr[2] >= c - qr[2] THEN qr[1] + 1 ELSE qr[1]
  IN  IF a < 0 THEN -q ELSE q

\* the factor that brings a short vector to full precision before its length is taken
Boost(ax, ay) ==
  LET m == Max(Abs(ax), Abs(ay))
  IN  IF m < 30 THEN 1000 ELSE IF m < 300 THEN 100 ELSE IF m < 3000 THEN 10 ELSE 1

\* Math.hypot(ax, ay), in the unit of ax and ay
Hypot(ax, ay) ==
  LET k == Boost(ax, ay)
  IN  RoundDiv(Isqrt((ax * k) * (ax * k) + (ay * k) * (ay * k)), k)

\* ax / Math.hypot(ax, ay) as a unit-vector component (0 for the zero vector is
\* decided by the caller)
UnitOf(ax, ay) ==
  LET k == Boost(ax, ay)
      h == Isqrt((ax * k) * (ax * k) + (ay * k) * (ay * k))
  IN  RoundDiv(ax * k * NScale, h)

\* ------------------------------------------------------------------------
\* collision.mjs
\* ------------------------------------------------------------------------
\* a length rounded to 0.01 px, as an operand of a product of two lengths
Coarse(a) == RoundDiv(a, 10)

\* the resolution, in 0.001 px, to which the offset (ox, oy) of a point from the first
\* endpoint is taken as an operand of the projection on the direction (cvx, cvy): full
\* where the products stay below 2^31, else 0.01 px
Grain(ox, oy, cvx, cvy) ==
  IF /\ cvx * cvx + cvy * cvy <= 200000000
     /\ Abs(ox) + Abs(oy) <= 2000000000 \div Max(1, Max(Abs(cvx), Abs(cvy)))
  THEN 1 ELSE 10

\* a closest-point routine whose guard for a zero-length segment returns the origin
closestPointOnSegment_Origin(px, py, x1, y1, x2, y2) ==
  LET vx    == x2 - x1
      vy    == y2 - y1
      g     == Grain(px - x1, py - y1, Coarse(vx), Coarse(vy))
      denom == (10 \div g) * (Coarse(vx) * Coarse(vx) + Coarse(vy) * Coarse(vy))
      num   == RoundDiv(px - x1, g) * Coarse(vx) + RoundDiv(py - y1, g) * Coarse(vy)
      tn    == Max(0, Min(denom, num))
  IN  IF denom = 0 THEN [x |-> 0, y |-> 0, tn |-> 0, td |-> 1]
      ELSE [x |-> x1 + MulDiv(vx, tn, denom), y |-> y1 + MulDiv(vy, tn, denom),
            tn |-> tn, td |-> denom]

\* a closest-point routine that snaps the projection to the nearer endpoint
closestPointOnSegment_Snapped(px, py, x1, y1, x2, y2) ==
  LET vx    == x2 - x1
      vy    == y2 - y1
      g     == Grain(px - x1, py - y1, Coarse(vx), Coarse(vy))
      denom == (10 \div g) * (Coarse(vx) * Coarse(vx) + Coarse(vy) * Coarse(vy))
      num   == RoundDiv(px - x1, g) * Coarse(vx) + RoundDiv(py - y1, g) * Coarse(vy)
      tn    == IF num >= denom - num THEN denom ELSE 0
  IN  IF denom = 0 THEN [x |-> x1, y |-> y1, tn |-> 0, td |-> 1]
      ELSE [x |-> x1 + MulDiv(vx, tn, denom), y |-> y1 + MulDiv(vy, tn, denom),
            tn |-> tn, td |-> denom]

\* collision.mjs 1-8; t is returned as the fraction tn / td
closestPointOnSegment(px, py, x1, y1, x2, y2) ==
  LET vx    == x2 - x1
      vy    == y2 - y1
      g     == Grain(px - x1, py - y1, Coarse(vx), Coarse(vy))
      denom == (10 \div g) * (Coarse(vx) * Coarse(vx) + Coarse(vy) * Coarse(vy))
      num   == RoundDiv(px - x1, g) * Coarse(vx) + RoundDiv(py - y1, g) * Coarse(vy)
      tn    == Max(0, Min(denom, num))
  IN  IF denom = 0 THEN [x |-> x1, y |-> y1, tn |-> 0, td |-> 1]
      ELSE [x |-> x1 + MulDiv(vx, tn, denom), y |-> y1 + MulDiv(vy, tn, denom),
            tn |-> tn, td |-> denom]

\* dxp * dxp, saturated beyond 30 px so that the sum of two squares stays below
\* 2^31; any saturated value exceeds every effective radius squared
Sq(a) == IF Abs(a) > 30000 THEN 30000 * 30000 ELSE a * a

\* a detector that forgets the thickness of the segment (a line instead of a capsule)
SegmentHit_NoThickness(cx, cy, cr, o) ==
  LET cp    == closestPointOnSegment(cx, cy, o.x1, o.y1, o.x2, o.y2)
      dxp   == cx - cp.x
      dyp   == cy - cp.y
      dist2 == Sq(dxp) + Sq(dyp)
      dist  == Hypot(dxp, dyp)
  IN  IF dist2 <= cr * cr
      THEN << [source |-> o, kind |-> "segment", cp |-> [x |-> cp.x, y |-> cp.y],
               dist |-> dist,
               nx |-> IF dist2 = 0 THEN 0 ELSE UnitOf(dxp, dyp),
               ny |-> IF dist2 = 0 THEN 0 ELSE UnitOf(dyp, dxp),
               penetration |-> cr - dist] >>
      ELSE << >>

\* collision.mjs 14-25: a segment treated as a capsule; <<hit>> or <<>>
SegmentHit(cx, cy, cr, o) ==
  LET cp    == closestPointOnSegment(cx, cy, o.x1, o.y1, o.x2, o.y2)
      dxp   == cx - cp.x
      dyp   == cy - cp.y
      dist2 == Sq(dxp) + Sq(dyp)
      dist  == Hypot(dxp, dyp)
      rEff  == cr + RoundDiv(IF "thickness" \in DOMAIN o THEN o.thickness ELSE 0, 2)
  IN  IF dist2 <= rEff * rEff
      THEN << [source |-> o, kind |-> "segment", cp |-> [x |-> cp.x, y |-> cp.y],
               dist |-> dist,
               nx |-> IF dist2 = 0 THEN 0 ELSE UnitOf(dxp, dyp),
               ny |-> IF dist2 = 0 THEN 0 ELSE UnitOf(dyp, dxp),
               penetration |-> rEff - dist] >>
      ELSE << >>

\* a rectangle detector that misses the grazing contact (distance exactly the radius)
RectHit_Strict(cx, cy, cr, o) ==
  LET closestX == Max(o.x, Min(cx, o.x + o.w))
      closestY == Max(o.y, Min(cy, o.y + o.h))
      dx       == cx - closestX
      dy       == cy - closestY
      d2       == Sq(dx) + Sq(dy)
      dist     == Hypot(dx, dy)
  IN  IF d2 < cr * cr
      THEN << [source |-> o, kind |-> "rect", cp |-> [x |-> closestX, y |-> closestY],
               dist |-> dist,
               nx |-> IF d2 = 0 THEN 0 ELSE UnitOf(dx, dy),
               ny |-> IF d2 = 0 THEN 0 ELSE UnitOf(dy, dx),
               penetration |-> cr - dist] >>
      ELSE << >>

\* collision.mjs 27-38: an axis-aligned rectangle; <<hit>> or <<>>
RectHit(cx, cy, cr, o) ==
  LET closestX == Max(o.x, Min(cx, o.x + o.w))
      closestY == Max(o.y, Min(cy, o.y + o.h))
      dx       == cx - closestX
      dy       == cy - closestY
      d2       == Sq(dx) + Sq(dy)
      dist     == Hypot(dx, dy)
  IN  IF d2 <= cr * cr
      THEN << [source |-> o, kind |-> "rect", cp |-> [x |-> closestX, y |-> closestY],
               dist |-> dist,
               nx |-> IF d2 = 0 THEN 0 ELSE UnitOf(dx, dy),
               ny |-> IF d2 = 0 THEN 0 ELSE UnitOf(dy, dx),
               penetration |-> cr - dist] >>
      ELSE << >>

\* a detector whose normals point from the body centre into the obstacle
ObstacleHit_Inward(cx, cy, cr, o) ==
  LET hs == IF o.type = "segment" THEN SegmentHit(cx, cy, cr, o)
            ELSE IF o.type = "rect" THEN RectHit(cx, cy, cr, o)
            ELSE << >>
  IN  IF hs = << >> THEN << >> ELSE << [hs[1] EXCEPT !.nx = -@, !.ny = -@] >>

\* collision.mjs 13-40: the loop body for one obstacle
ObstacleHit(cx, cy, cr, o) ==
  IF o.type = "segment" THEN SegmentHit(cx, cy, cr, o)
  ELSE IF o.type = "rect" THEN RectHit(cx, cy, cr, o)
  ELSE << >>

RECURSIVE HitsFrom(_, _, _, _, _)
HitsFrom(cx, cy, cr, obstacles, i) ==
  IF i > Len(obstacles) THEN << >>
  ELSE ObstacleHit(cx, cy, cr, obstacles[i]) \o HitsFrom(cx, cy, cr, obstacles, i + 1)

checkCircleCollisions(cx, cy, cr, obstacles) == HitsFrom(cx, cy, cr, obstacles, 1)

\* ------------------------------------------------------------------------
\* physics.mjs: step(state, obstacles, opts)
\* ------------------------------------------------------------------------
DefaultGravity == 200
DefaultFriction == 995
DefaultStopThreshold == 20
DefaultRestitution == 300
DefaultTangentialRetention == 600
ENERGY_DAMPING_THRESHOLD == -100
CreepThreshold == 20

\* opts.key ?? default
Opt(opts, key, default) == IF key \in DOMAIN opts THEN opts[key] ELSE default

gravityOf(opts) == Opt(opts, "gravity", DefaultGravity)

frictionOf(opts) == Opt(opts, "friction", DefaultFriction)

boundsOf(opts) == Opt(opts, "bounds", [width |-> 0, height |-> 0])

stopThresholdOf(opts) == Opt(opts, "stopThreshold", DefaultStopThreshold)

restitutionOf(opts) == Opt(opts, "restitution", DefaultRestitution)

tangentialFrictionOf(opts) == Opt(opts, "tangentialFriction", frictionOf(opts))

tangentialRetentionOf(opts) == Opt(opts, "tangentialRetention", DefaultTangentialRetention)

\* a derivation that always takes the velocity from direction and speed
WorkingVelocity_FromDirection(state) ==
  [vx |-> RoundDiv(state.dx * state.speed, NScale),
   vy |-> RoundDiv(state.dy * state.speed, NScale)]

\* lines 26-27: the persisted velocity if present, else dx * speed
WorkingVelocity(state) ==
  [vx |-> IF "vx" \in DOMAIN state THEN state.vx
          ELSE RoundDiv(state.dx * state.speed, NScale),
   vy |-> IF "vy" \in DOMAIN state THEN state.vy
          ELSE RoundDiv(state.dy * state.speed, NScale)]

\* lines 30-33: bounds handling; it rewrites the direction (dx, dy) only
BoundsFlip(state, bounds) ==
  LET r   == state.r
      dx1 == IF state.x >= bounds.width - r /\ state.dx > 0 THEN -Abs(state.dx) ELSE state.dx
      dx2 == IF state.x <= r /\ dx1 < 0 THEN Abs(dx1) ELSE dx1
      dy1 == IF state.y >= bounds.height - r /\ state.dy > 0 THEN -Abs(state.dy) ELSE state.dy
      dy2 == IF state.y <= r /\ dy1 < 0 THEN Abs(dy1) ELSE dy1
  IN  [dx |-> dx2, dy |-> dy2]

\* lines 36-43: the gravity-advanced velocity and tentative position
Tentative(state, v, gravity) ==
  [vxFor |-> v.vx, vyFor |-> v.vy + gravity,
   newX |-> state.x + v.vx, newY |-> state.y + v.vy + gravity]

\* line 55: hits.sort by penetration, descending (stable)
RECURSIVE InsertHit(_, _)
InsertHit(sorted, h) ==
  IF sorted = << >> THEN << h >>
  ELSE IF h.penetration > Head(sorted).penetration THEN << h >> \o sorted
  ELSE << Head(sorted) >> \o InsertHit(Tail(sorted), h)

RECURSIVE SortHits(_, _, _)
SortHits(hits, i, acc) ==
  IF i > Len(hits) THEN acc ELSE SortHits(hits, i + 1, InsertHit(acc, hits[i]))

\* a step that resolves the first hit the detector returned
DominantHit_First(hits) == hits[1]

\* lines 55-56: the hit that is resolved
DominantHit(hits) == SortHits(hits, 1, << >>)[1]

\* lines 52-54: hits is an array, its property "type" is undefined
HitsType(hits) == "undefined"

\* a push-out that falls back to the upward normal (0, -1) where the hit's normal is zero
PushOut_DefaultNormal(t, hits, h, gravity) ==
  LET y0  == IF HitsType(hits) = "rect" THEN t.newY - gravity ELSE t.newY
      pen == Max(0, h.penetration)
      ny  == IF h.nx = 0 /\ h.ny = 0 THEN -NScale ELSE h.ny
  IN  [x |-> t.newX + RoundDiv(h.nx * pen, NScale),
       y |-> y0 + RoundDiv(ny * pen, NScale)]

\* lines 52-63: push the tentative position out of penetration
PushOut(t, hits, h, gravity) ==
  LET y0  == IF HitsType(hits) = "rect" THEN t.newY - gravity ELSE t.newY
      pen == Max(0, h.penetration)
  IN  [x |-> t.newX + RoundDiv(h.nx * pen, NScale),
       y |-> y0 + RoundDiv(h.ny * pen, NScale)]

\* lines 66-68: unit tangent
Tangent(nx, ny) ==
  LET tx0  == -ny
      ty0  == nx
      len  == Isqrt(tx0 * tx0 + ty0 * ty0)
      tlen == IF len = 0 THEN NScale ELSE len
  IN  [tx |-> RoundDiv(tx0 * NScale, tlen), ty |-> RoundDiv(ty0 * NScale, tlen)]

\* an obstacle velocity that takes the contact point's coordinates for its offset from
\* the rotation centre
ObstacleVelocity_NoCentre(h) ==
  LET o == h.source
  IN  IF "angularVelocity" \in DOMAIN o /\ o.angularVelocity # 0
      THEN [obsVx |-> RoundDiv(-o.angularVelocity * h.cp.y, WScale),
            obsVy |-> RoundDiv(o.angularVelocity * h.cp.x, WScale)]
      ELSE [obsVx |-> 0, obsVy |-> 0]

\* an obstacle velocity for a rotation in the opposite sense
ObstacleVelocity_Clockwise(h) ==
  LET o == h.source
  IN  IF "angularVelocity" \in DOMAIN o /\ o.angularVelocity # 0
      THEN [obsVx |-> RoundDiv(o.angularVelocity * (h.cp.y - o.centerY), WScale),
            obsVy |-> RoundDiv(-o.angularVelocity * (h.cp.x - o.centerX), WScale)]
      ELSE [obsVx |-> 0, obsVy |-> 0]

\* lines 74-88: velocity of the obstacle at the contact point
ObstacleVelocity(h) ==
  LET o == h.source
  IN  IF "angularVelocity" \in DOMAIN o /\ o.angularVelocity # 0
      THEN [obsVx |-> RoundDiv(-o.angularVelocity * (h.cp.y - o.centerY), WScale),
            obsVy |-> RoundDiv(o.angularVelocity * (h.cp.x - o.centerX), WScale)]
      ELSE [obsVx |-> 0, obsVy |-> 0]

\* a . b for a velocity a and a unit vector b
Dot(ax, ay, bx, by) == RoundDiv(ax * bx + ay * by, NScale)

\* a normal response that reflects the gravity-advanced velocity of a resting body
\* instead of cancelling it
NormalResponse_Bouncy(vx0, vy0, t, obs, nx, ny, restitution) ==
  LET vDotN_rel     == Dot(vx0 - obs.obsVx, vy0 - obs.obsVy, nx, ny)
      vObsDotN      == Dot(obs.obsVx, obs.obsVy, nx, ny)
      vDotN_gravity == Dot(t.vxFor, t.vyFor, nx, ny)
  IN  IF vDotN_rel < ENERGY_DAMPING_THRESHOLD
      THEN RoundDiv(-vDotN_rel * restitution, FracScale) + vObsDotN
      ELSE Abs(vDotN_gravity) + vObsDotN

\* a normal response that reflects at full speed, whatever the restitution
NormalResponse_Elastic(vx0, vy0, t, obs, nx, ny, restitution) ==
  LET vDotN_rel     == Dot(vx0 - obs.obsVx, vy0 - obs.obsVy, nx, ny)
      vObsDotN      == Dot(obs.obsVx, obs.obsVy, nx, ny)
      vDotN_gravity == Dot(t.vxFor, t.vyFor, nx, ny)
  IN  IF vDotN_rel < ENERGY_DAMPING_THRESHOLD
      THEN -vDotN_rel + vObsDotN
      ELSE IF vDotN_gravity > 0 THEN vDotN_gravity
      ELSE vObsDotN

\* a normal response that brings a resting body to rest in the world frame, whatever the
\* obstacle's velocity
NormalResponse_Static(vx0, vy0, t, obs, nx, ny, restitution) ==
  LET vDotN_rel     == Dot(vx0 - obs.obsVx, vy0 - obs.obsVy, nx, ny)
      vObsDotN      == Dot(obs.obsVx, obs.obsVy, nx, ny)
      vDotN_gravity == Dot(t.vxFor, t.vyFor, nx, ny)
  IN  IF vDotN_rel < ENERGY_DAMPING_THRESHOLD
      THEN RoundDiv(-vDotN_rel * restitution, FracScale) + vObsDotN
      ELSE IF vDotN_gravity > 0 THEN vDotN_gravity
      ELSE 0

\* lines 91-122: the normal velocity after the contact
NormalResponse(vx0, vy0, t, obs, nx, ny, restitution) ==
  LET v_rel_x       == vx0 - obs.obsVx
      v_rel_y       == vy0 - obs.obsVy
      vDotN_rel     == Dot(v_rel_x, v_rel_y, nx, ny)
      vObsDotN      == Dot(obs.obsVx, obs.obsVy, nx, ny)
      vDotN_gravity == Dot(t.vxFor, t.vyFor, nx, ny)
  IN  IF vDotN_rel < ENERGY_DAMPING_THRESHOLD
      THEN RoundDiv(-vDotN_rel * restitution, FracScale) + vObsDotN
      ELSE IF vDotN_gravity > 0 THEN vDotN_gravity
      ELSE vObsDotN

\* a tangential response that projects gravity on the tangent's x component
TangentialResponse_GravityAlongTx(vx0, vy0, obs, tg, gravity, tangentialFriction, tangentialRetention) ==
  LET gravityAlong   == RoundDiv(gravity * tg.tx, NScale)
      vObsDotT       == Dot(obs.obsVx, obs.obsVy, tg.tx, tg.ty)
      vDotT_rel_base == Dot(vx0 - obs.obsVx, vy0 - obs.obsVy, tg.tx, tg.ty)
      vAlong_rel1    == RoundDiv((vDotT_rel_base + gravityAlong) * tangentialFriction, FracScale)
      vAlong_rel2    == RoundDiv(vAlong_rel1 * (FracScale - tangentialRetention)
                                 + vDotT_rel_base * tangentialRetention, FracScale)
  IN  vAlong_rel2 + vObsDotT

\* a tangential response without the retention blend: all of the relative tangential
\* speed is damped by the tangential friction
TangentialResponse_NoRetention(vx0, vy0, obs, tg, gravity, tangentialFriction, tangentialRetention) ==
  LET gravityAlong   == RoundDiv(gravity * tg.ty, NScale)
      vObsDotT       == Dot(obs.obsVx, obs.obsVy, tg.tx, tg.ty)
      vDotT_rel_base == Dot(vx0 - obs.obsVx, vy0 - obs.obsVy, tg.tx, tg.ty)
  IN  RoundDiv((vDotT_rel_base + gravityAlong) * tangentialFriction, FracScale) + vObsDotT

\* lines 132-151: the tangential speed before the anti-creep clamp
TangentialResponse(vx0, vy0, obs, tg, gravity, tangentialFriction, tangentialRetention) ==
  LET gravityAlong   == RoundDiv(gravity * tg.ty, NScale)
      vObsDotT       == Dot(obs.obsVx, obs.obsVy, tg.tx, tg.ty)
      vDotT_rel_base == Dot(vx0 - obs.obsVx, vy0 - obs.obsVy, tg.tx, tg.ty)
      vAlong_rel1    == RoundDiv((vDotT_rel_base + gravityAlong) * tangentialFriction, FracScale)
      vAlong_rel2    == RoundDiv(vAlong_rel1 * (FracScale - tangentialRetention)
                                 + vDotT_rel_base * tangentialRetention, FracScale)
  IN  vAlong_rel2 + vObsDotT

\* a clamp that zeroes every tiny tangential speed, uphill or not
AntiCreep_AnyDirection(vAlong, ty) ==
  IF Abs(vAlong) < CreepThreshold THEN 0 ELSE vAlong

\* line 157: clamp tiny uphill creeping
AntiCreep(vAlong, ty) ==
  IF Abs(vAlong) < CreepThreshold /\ vAlong * ty < 0 THEN 0 ELSE vAlong

\* a recombination without the defensive removal of the component into the surface
Recombine_NoStrip(tg, vAlong, nx, ny, new_vn_scalar) ==
  [vx |-> RoundDiv(tg.tx * vAlong, NScale) + RoundDiv(nx * new_vn_scalar, NScale),
   vy |-> RoundDiv(tg.ty * vAlong, NScale) + RoundDiv(ny * new_vn_scalar, NScale)]

\* lines 162-171: outgoing velocity, with any component into the surface removed
Recombine(tg, vAlong, nx, ny, new_vn_scalar) ==
  LET outVx   == RoundDiv(tg.tx * vAlong, NScale) + RoundDiv(nx * new_vn_scalar, NScale)
      outVy   == RoundDiv(tg.ty * vAlong, NScale) + RoundDiv(ny * new_vn_scalar, NScale)
      outDotN == Dot(outVx, outVy, nx, ny)
  IN  IF outDotN < 0
      THEN [vx |-> outVx - RoundDiv(nx * outDotN, NScale),
            vy |-> outVy - RoundDiv(ny * outDotN, NScale)]
      ELSE [vx |-> outVx, vy |-> outVy]

\* a forced stop that zeroes the velocity and leaves direction and speed as they were
Finish_VelocityOnly(cur, vx, vy, newSpeed, stopThreshold) ==
  IF newSpeed < stopThreshold
  THEN [cur EXCEPT !.vx = 0, !.vy = 0]
  ELSE [cur EXCEPT !.dx = UnitOf(vx, vy), !.dy = UnitOf(vy, vx), !.speed = newSpeed,
                   !.vx = vx, !.vy = vy]

\* lines 176-181 and 189-194: forced stop below stopThreshold, else direction and speed
Finish(cur, vx, vy, newSpeed, stopThreshold) ==
  IF newSpeed < stopThreshold
  THEN [cur EXCEPT !.dx = 0, !.dy = 0, !.speed = 0, !.vx = 0, !.vy = 0]
  ELSE [cur EXCEPT !.dx = UnitOf(vx, vy), !.dy = UnitOf(vy, vx), !.speed = newSpeed,
                   !.vx = vx, !.vy = vy]

\* the locals cur with the position (x, y)
Place(cur, x, y) == [cur EXCEPT !.x = x, !.y = y]

\* lines 174-181: the result of the contact branch, from the outgoing velocity out and
\* the pushed-out position p
Settle(cur, out, p, stopThreshold) ==
  Place(Finish(cur, out.vx, out.vy, Hypot(out.vx, out.vy), stopThreshold), p.x, p.y)

\* lines 66-171: the outgoing velocity of a contact with hit h, tangent tg and obstacle
\* velocity obs
Response(cur, t, h, tg, obs, opts) ==
  Recombine(tg,
            AntiCreep(TangentialResponse(cur.vx, cur.vy, obs, tg, gravityOf(opts),
                          tangentialFrictionOf(opts), tangentialRetentionOf(opts)), tg.ty),
            h.nx, h.ny,
            NormalResponse(cur.vx, cur.vy, t, obs, h.nx, h.ny, restitutionOf(opts)))

\* lines 55-183: the contact branch for the dominant hit h
ContactOn(cur, t, hits, h, opts) ==
  Settle(cur, Response(cur, t, h, Tangent(h.nx, h.ny), ObstacleVelocity(h), opts),
         PushOut(t, hits, h, gravityOf(opts)), stopThresholdOf(opts))

\* lines 50-183: the contact branch
Contact(cur, t, hits, opts) == ContactOn(cur, t, hits, DominantHit(hits), opts)

\* an airborne branch that keeps the working velocity, gravity applied to the position only
Airborne_NoGravity(cur, t, opts) ==
  Place(Finish(cur, t.vxFor, cur.vy, Hypot(t.vxFor, cur.vy), stopThresholdOf(opts)),
        t.newX, t.newY)

\* lines 184-195: the airborne branch
Airborne(cur, t, opts) ==
  Place(Finish(cur, t.vxFor, t.vyFor, Hypot(t.vxFor, t.vyFor), stopThresholdOf(opts)),
        t.newX, t.newY)

\* lines 23-33: the locals after destructuring, velocity derivation and bounds handling
Locals(state, opts) ==
  LET v == WorkingVelocity(state)
      d == BoundsFlip(state, boundsOf(opts))
  IN  [x |-> state.x, y |-> state.y, dx |-> d.dx, dy |-> d.dy, speed |-> state.speed,
       vx |-> v.vx, vy |-> v.vy]

\* a detector call on the position advanced without gravity
Detect_NoGravity(state, opts, obstacles) ==
  LET v == WorkingVelocity(state)
  IN  checkCircleCollisions(state.x + v.vx, state.y + v.vy, state.r, obstacles)

\* line 45: the detector runs once, on the tentative position
Detect(state, opts, obstacles) ==
  LET t == Tentative(state, WorkingVelocity(state), gravityOf(opts))
  IN  checkCircleCollisions(t.newX, t.newY, state.r, obstacles)

\* line 197: the returned object
Returned(res, contact) ==
  [x |-> res.x, y |-> res.y, dx |-> res.dx, dy |-> res.dy, speed |-> res.speed,
   vx |-> res.vx, vy |-> res.vy, contact |-> contact]

\* lines 48-197: the branch on isInContact
Branch(cur, t, hits, isInContact, opts) ==
  Returned(IF isInContact THEN Contact(cur, t, hits, opts) ELSE Airborne(cur, t, opts),
           isInContact)

\* lines 23-43 before the branch
Advance(state, cur, hits, opts) ==
  Branch(cur, Tentative(state, cur, gravityOf(opts)), hits, Len(hits) > 0, opts)

\* lines 23-198: everything but the detector call, given its hits
Resolve(state, hits, opts) == Advance(state, Locals(state, opts), hits, opts)

\* lines 10-198
step(state, obstacles, opts) == Resolve(state, Detect(state, opts, obstacles), opts)

\* ------------------------------------------------------------------------
\* The core as a state machine: a host that keeps one body and calls step on
\* it once per frame against a fixed obstacle list, and that may probe the
\* detector directly.
\* ------------------------------------------------------------------------
VARIABLES
  world,   \* [obstacles, opts]: what the host passes to every call
  body,    \* the body state the host persists between calls (with its radius r)
  start,   \* the body state the run started from
  call,    \* the last call: its arguments, the detector's hits and the result
  n,       \* number of step calls (of playing frames) so far
  host     \* the host's own state: game state, jump permission, touch flags, slope angle

vars == <<world, body, start, call, n, host>>

MaxSteps == 10

ScenarioSteps == 32

\* lengths in px and velocities in px/step, written in 1/Scale
Px(a) == a * Scale

FlatStatic ==
  [type |-> "segment", x1 |-> Px(0), y1 |-> Px(100), x2 |-> Px(100), y2 |-> Px(100),
   thickness |-> Px(10), centerX |-> Px(50), centerY |-> Px(100), angularVelocity |-> 0]

FlatRotating == [FlatStatic EXCEPT !.angularVelocity = 20]

FlatOffPivot == [FlatStatic EXCEPT !.angularVelocity = 20, !.centerY = Px(110)]

\* a zero-length segment: both endpoints at (50, 100)
Pin == [FlatStatic EXCEPT !.x1 = Px(50), !.x2 = Px(50)]

\* a 3-4-5 slope, no rotation fields
Slope ==
  [type |-> "segment", x1 |-> Px(10), y1 |-> Px(70), x2 |-> Px(90), y2 |-> Px(130),
   thickness |-> Px(10)]

Box == [type |-> "rect", x |-> Px(20), y |-> Px(95), w |-> Px(60), h |-> Px(20)]

ObstacleLists ==
  { << FlatStatic >>, << FlatRotating >>, << FlatOffPivot >>, << Slope >>, << Box >>,
    << Box, FlatStatic >>, << FlatRotating, Slope >>, << Pin >> }

OptsSet ==
  ( { [gravity |-> 200, friction |-> 995, restitution |-> rs, stopThreshold |-> st,
     bounds |-> [width |-> Px(100), height |-> Px(140)]] :
      rs \in {300, 600}, st \in {20, 50} } \ { [gravity |-> 200, friction |-> 995,
     restitution |-> 600, stopThreshold |-> 50,
     bounds |-> [width |-> Px(100), height |-> Px(140)]] } )
  \cup { [gravity |-> 200, friction |-> 900, restitution |-> 300, stopThreshold |-> 20,
           tangentialRetention |-> 500, bounds |-> [width |-> Px(100), height |-> Px(140)]] }

Worlds == { [obstacles |-> ol, opts |-> op] : ol \in ObstacleLists, op \in OptsSet }

\* a body of radius 15 px whose direction and speed agree with its velocity
BodyAt(x, y, vx, vy) ==
  [x |-> x, y |-> y, dx |-> IF vx = 0 /\ vy = 0 THEN 0 ELSE UnitOf(vx, vy),
   dy |-> IF vx = 0 /\ vy = 0 THEN 0 ELSE UnitOf(vy, vx), speed |-> Hypot(vx, vy),
   r |-> Px(15), vx |-> vx, vy |-> vy]

Bodies ==
  { BodyAt(Px(x), y, vx, vy) :
      x \in {20, 47, 50, 62, 88}, y \in {Px(50), 79900, Px(80), Px(84), 99800},
      vx \in {0, 3000}, vy \in {-180, 0, 120, 2000} }

NoCall == [op |-> "none"]

\* the core is driven directly: there is no host
NoHost == [gameState |-> "none"]

Init ==
  /\ world \in Worlds
  /\ body \in Bodies
  /\ start = body
  /\ call = NoCall
  /\ n = 0
  /\ host = NoHost

\* a step that writes the new position and velocity back into the state object it was given
StateAfter_InPlace(state, res) ==
  [state EXCEPT !.x = res.x, !.y = res.y, !.vx = res.vx, !.vy = res.vy]

\* lines 23-197: the state object the caller passed, as it is after the call; step
\* destructures it into locals and assigns to the locals only
StateAfter(state, res) == state

\* collision.mjs 10-43 and lines 45-88: the obstacle list the caller passed, as it is after
\* the call; the detector reads the obstacles and refers to them from the hits
\* (source: o), and step sorts the array of hits, not the list of obstacles
ObstaclesAfter(obstacles, hits) == obstacles

\* the caller keeps the returned state as the body, with its radius
Commit(state, hits, res) ==
  /\ call' = [op |-> "step", state |-> state, hits |-> hits, result |-> res,
              after |-> [state |-> StateAfter(state, res),
                         obstacles |-> ObstaclesAfter(world.obstacles, hits)]]
  /\ body' = [x |-> res.x, y |-> res.y, dx |-> res.dx, dy |-> res.dy,
              speed |-> res.speed, r |-> state.r, vx |-> res.vx, vy |-> res.vy]

Stepped(state, hits) == Commit(state, hits, Resolve(state, hits, world.opts))

\* one frame of the host: step, then persist the returned state
StepUpTo(max) ==
  /\ n < max
  /\ Stepped(body, Detect(body, world.opts, world.obstacles))
  /\ n' = n + 1
  /\ UNCHANGED <<world, start, host>>

\* the host probes the detector directly, at the body's position or beside it; the
\* probe changes nothing, so it is explored from the initial states only
DetectAct ==
  /\ n = 0
  /\ \E ox \in {0, Px(40)} :
       call' = [op |-> "detect", cx |-> body.x + ox, cy |-> body.y, cr |-> body.r,
                hits |-> checkCircleCollisions(body.x + ox, body.y, body.r, world.obstacles),
                after |-> [obstacles |-> ObstaclesAfter(world.obstacles, << >>)]]
  /\ UNCHANGED <<world, body, start, n, host>>

StepAct == StepUpTo(MaxSteps)

Next == StepAct \/ DetectAct

\* The scenarios of the specification's section 8: the flat segment (0,100)-(100,100)
\* of thickness 10, static or turning at 0.02 rad/step about its midpoint or about a
\* pivot 10 px below it, and a body of radius 15 dropped from (50,50), resting at
\* (50,80) or sliding along the segment.
ScenarioWorlds ==
  { [obstacles |-> ol, opts |-> op] :
      ol \in { << FlatStatic >>, << FlatRotating >>, << FlatOffPivot >> }, op \in OptsSet }

ScenarioBodies ==
  { BodyAt(Px(50), Px(50), 0, 0), BodyAt(Px(50), Px(80), 0, 0),
    BodyAt(Px(30), Px(80), 1000, 0), BodyAt(Px(70), Px(70), 0, 0) }

ScenarioInit ==
  /\ world \in ScenarioWorlds
  /\ body \in ScenarioBodies
  /\ start = body
  /\ call = NoCall
  /\ n = 0
  /\ host = NoHost

ScenarioStep == StepUpTo(ScenarioSteps)

ScenarioNext == ScenarioStep \/ DetectAct

SpecScenario == ScenarioInit /\ [][ScenarioNext]_vars

\* Contacts with a tiny tangential speed: a body of radius 15 touching the 3-4-5 slope or
\* the flat segment, static or turning, that moves into the surface or rests on it, with a
\* velocity almost along the normal.
CreepSteps == 3

CreepWorlds ==
  { [obstacles |-> ol, opts |-> op] :
      ol \in { << Slope >>, << FlatStatic >>, << FlatRotating >> }, op \in OptsSet }

CreepBodies ==
  { BodyAt(Px(x), y, vx, vy) :
      x \in {47, 62}, y \in {Px(80), 82900},
      vx \in {-1246, -1230, -1200, -10, 10}, vy \in {0, 1565, 1577, 1600} }

CreepInit ==
  /\ world \in CreepWorlds
  /\ body \in CreepBodies
  /\ start = body
  /\ call = NoCall
  /\ n = 0
  /\ host = NoHost

CreepNext == StepUpTo(CreepSteps) \/ DetectAct

SpecCreep == CreepInit /\ [][CreepNext]_vars

\* States as a caller may pass them: with both velocity components, with vx only or with
\* neither, and with a direction and speed that agree with the velocity or that do not.
VelocitySteps == 3

\* the state without the fields gone
Without(state, gone) == [f \in DOMAIN state \ gone |-> state[f]]

VelocityBodies ==
  { Without([BodyAt(Px(x), Px(y), vx, vy) EXCEPT !.dx = d[1], !.dy = d[2], !.speed = d[3]],
            gone) :
      x \in {50, 88}, y \in {50, 80}, vx \in {0, 3000}, vy \in {0, 2000},
      d \in { <<0, NScale, 2000>>, <<6000, -8000, 1000>> },
      gone \in { {}, {"vy"}, {"vx", "vy"} } }

VelocityInit ==
  /\ world \in Worlds
  /\ body \in VelocityBodies
  /\ start = body
  /\ call = NoCall
  /\ n = 0
  /\ host = NoHost

VelocityNext == StepUpTo(VelocitySteps) \/ DetectAct

SpecVelocity == VelocityInit /\ [][VelocityNext]_vars

\* closestPointOnSegment on its own: a segment between two points of a 20 px grid, zero
\* length included, and a query point on it, beside it, before its start or past its end.
ClosestSegments ==
  { [x1 |-> a, y1 |-> b, x2 |-> c, y2 |-> d] :
      a \in {0, 7770, Px(20)}, b \in {0, 7770, Px(20)},
      c \in {0, 7770, Px(20)}, d \in {0, 7770, Px(20)} }

ClosestPoints ==
  { [x |-> a, y |-> b] : a \in {-5000, 0, 3885, 7301, 12345, Px(20), Px(25)},
                          b \in {-5000, 0, 3885, 7301, 12345, Px(20), Px(25)} }

ClosestInit ==
  /\ world \in ClosestSegments
  /\ body \in ClosestPoints
  /\ start = body
  /\ call = NoCall
  /\ n = 0
  /\ host = NoHost

\* one call closestPointOnSegment(px, py, x1, y1, x2, y2)
ClosestNext ==
  /\ n = 0
  /\ call' = [op |-> "closestPointOnSegment",
              result |-> closestPointOnSegment(body.x, body.y,
                                               world.x1, world.y1, world.x2, world.y2)]
  /\ n' = 1
  /\ UNCHANGED <<world, body, start, host>>

SpecClosest == ClosestInit /\ [][ClosestNext]_vars

Spec == Init /\ [][Next]_vars

\* ------------------------------------------------------------------------
\* The host: the frame loop of main.mjs with its touch input, start button and resize
\* handler. Angles are in units of 0.0001 rad. The frames explored end before the
\* first laser can spawn (BASE_LASER_SPAWN_INTERVAL ms after the start) and before the
\* difficulty starts to rise, so there is no laser and the speeds keep their base values.
\* ------------------------------------------------------------------------
AScale == 10000

HalfPi == 15708

\* sin of an angle x, 0 <= x <= HalfPi, by its Taylor series to x^9
SinQ(x) ==
  LET x2 == RoundDiv(x * x, AScale)
      t4 == NScale - RoundDiv(x2, 72)
      t3 == NScale - RoundDiv(x2 * t4, 42 * AScale)
      t2 == NScale - RoundDiv(x2 * t3, 20 * AScale)
      t1 == NScale - RoundDiv(x2 * t2, 6 * AScale)
  IN  RoundDiv(x * t1, AScale)

\* Math.sin, for -2 pi <= a <= 2 pi
RECURSIVE Sin(_)
Sin(a) ==
  IF a < 0 THEN -Sin(-a)
  ELSE IF a > 2 * HalfPi THEN -Sin(a - 2 * HalfPi)
  ELSE IF a > HalfPi THEN SinQ(2 * HalfPi - a)
  ELSE SinQ(a)

\* Math.cos, for -2 pi <= a <= pi
Cos(a) == Sin(a + HalfPi)

SCALE_FACTOR_REF_HEIGHT == 1000

JUMP_STRENGTH_Y == -10000

InitialSpeed == 3000

HostGravity == 200

HostFriction == 995

HostStopThreshold == 50

BASE_MAX_SPEED == 10000

BASE_MANUAL_ROTATION_SPEED == 25

BASE_AUTO_ROTATION_SPEED == 8

\* utils.mjs: ScoreTracker. Times are in ms.
updateInterval == 1000

\* utils.mjs, lines 13-16: a tracker as constructed
ScoreTracker == [score |-> 0, lastUpdateTime |-> 0]

\* utils.mjs, lines 23-26: start(), called when performance.now() returns now
scoreStart(s, now) == [score |-> 0, lastUpdateTime |-> now]

\* utils.mjs, lines 32-48: update(timestamp), with lastUpdateTime as lines 33-36 left it
scoreUpdateFrom(s, last, timestamp) ==
  IF timestamp >= last + updateInterval
  THEN [score |-> s.score + (timestamp - last) \div updateInterval,
        lastUpdateTime |-> last + ((timestamp - last) \div updateInterval) * updateInterval]
  ELSE [score |-> s.score, lastUpdateTime |-> last]

\* utils.mjs, lines 32-48: update(timestamp)
scoreUpdate(s, timestamp) ==
  scoreUpdateFrom(s, IF s.lastUpdateTime = 0 THEN timestamp ELSE s.lastUpdateTime, timestamp)

\* utils.mjs, lines 54-56
getScore(s) == s.score

\* difficulty.mjs. Seconds, ms, px/step in 1/Scale, px in 1/Scale.
TIME_TO_START_INCREASE == 10

BALL_SPEED_INCREASE_FACTOR == 100

BASE_LASER_SPEED == 3500

BASE_LASER_WIDTH == 60000

BASE_LASER_HEIGHT == 12000

BASE_LASER_SPAWN_INTERVAL == 4000

LASER_SPAWN_DECREASE_FACTOR == 30

MIN_LASER_SPAWN_INTERVAL == 1200

\* difficulty.mjs, lines 18-24: the module's variables as the module is loaded
Difficulty ==
  [gameStartTime |-> 0, currentMaxSpeed |-> BASE_MAX_SPEED,
   currentManualRotationSpeed |-> BASE_MANUAL_ROTATION_SPEED,
   currentAutoRotationSpeed |-> BASE_AUTO_ROTATION_SPEED,
   currentLaserSpawnInterval |-> BASE_LASER_SPAWN_INTERVAL]

\* difficulty.mjs, lines 30-34
initDifficulty(d, timestamp) ==
  IF d.gameStartTime = 0 THEN [d EXCEPT !.gameStartTime = timestamp] ELSE d

\* difficulty.mjs, lines 40-46
resetDifficulty(d, timestamp) ==
  [d EXCEPT !.gameStartTime = timestamp, !.currentMaxSpeed = BASE_MAX_SPEED,
            !.currentAutoRotationSpeed = BASE_AUTO_ROTATION_SPEED,
            !.currentLaserSpawnInterval = BASE_LASER_SPAWN_INTERVAL]

\* a ramp whose spawn interval has no floor
Ramped_NoFloor(d, overMs) ==
  [d EXCEPT !.currentMaxSpeed =
               BASE_MAX_SPEED + RoundDiv(overMs * BALL_SPEED_INCREASE_FACTOR, 1000),
            !.currentLaserSpawnInterval =
               BASE_LASER_SPAWN_INTERVAL
                 - RoundDiv(overMs * LASER_SPAWN_DECREASE_FACTOR, 1000)]

\* difficulty.mjs, lines 56-66: the ramp, for timeOverThreshold > 0 given in ms
Ramped(d, overMs) ==
  [d EXCEPT !.currentMaxSpeed =
               BASE_MAX_SPEED + RoundDiv(overMs * BALL_SPEED_INCREASE_FACTOR, 1000),
            !.currentLaserSpawnInterval =
               Max(BASE_LASER_SPAWN_INTERVAL
                     - RoundDiv(overMs * LASER_SPAWN_DECREASE_FACTOR, 1000),
                   MIN_LASER_SPAWN_INTERVAL)]

\* difficulty.mjs, lines 52-78
updateDifficulty(d, timestamp) ==
  [(IF timestamp - d.gameStartTime > TIME_TO_START_INCREASE * 1000
    THEN Ramped(d, timestamp - d.gameStartTime - TIME_TO_START_INCREASE * 1000)
    ELSE [d EXCEPT !.currentMaxSpeed = BASE_MAX_SPEED,
                   !.currentLaserSpawnInterval = BASE_LASER_SPAWN_INTERVAL])
   EXCEPT !.currentAutoRotationSpeed = BASE_AUTO_ROTATION_SPEED,
          !.currentManualRotationSpeed = BASE_MANUAL_ROTATION_SPEED]

\* difficulty.mjs, lines 84-95
getDifficultyState(d) ==
  [currentMaxSpeed |-> d.currentMaxSpeed,
   currentManualRotationSpeed |-> d.currentManualRotationSpeed,
   currentAutoRotationSpeed |-> d.currentAutoRotationSpeed,
   laserSpeed |-> BASE_LASER_SPEED, laserWidth |-> BASE_LASER_WIDTH,
   laserHeight |-> BASE_LASER_HEIGHT, laserSpawnInterval |-> d.currentLaserSpawnInterval]

\* the window: cnv.width and cnv.height
Canvas == [width |-> Px(300), height |-> Px(400)]

\* resize, line 106
scaleFactor(cnv) == RoundDiv(cnv.height * FracScale, SCALE_FACTOR_REF_HEIGHT * Scale)

Scaled(a, cnv) == RoundDiv(a * scaleFactor(cnv), FracScale)

\* resize, line 107
radius(cnv) == Max(Px(15), RoundDiv(cnv.height, 18))

\* updateLayout, lines 44-60; the half vector (halfDx, halfDy) stands for lineHalfLen and
\* lineBaseAngle
updateLayout(cnv) ==
  [lineX1 |-> RoundDiv(cnv.width, 5), lineX2 |-> RoundDiv(cnv.width * 4, 5),
   lineY1 |-> RoundDiv(cnv.height * 3, 5), lineY2 |-> RoundDiv(cnv.height * 2, 5),
   lineThickness |-> Max(Px(6), RoundDiv(cnv.height, 40)),
   lineCenterX |-> RoundDiv(RoundDiv(cnv.width, 5) + RoundDiv(cnv.width * 4, 5), 2),
   lineCenterY |-> RoundDiv(RoundDiv(cnv.height * 3, 5) + RoundDiv(cnv.height * 2, 5), 2),
   halfDx |-> RoundDiv(RoundDiv(cnv.width * 4, 5) - RoundDiv(cnv.width, 5), 2),
   halfDy |-> RoundDiv(RoundDiv(cnv.height * 2, 5) - RoundDiv(cnv.height * 3, 5), 2)]

\* the spawn position of resize (113-114) and resetBallAndGame (83-84)
SpawnX(lay) == lay.lineCenterX

SpawnY(lay, r) == lay.lineCenterY - lay.lineThickness - r - Px(2)

\* draw, lines 178-182 and 243-250: the slope turned by alpha about its centre, as the
\* frame's only obstacle; c and sn are the cosine and sine of alpha, and the cosine and
\* sine of lineBaseAngle + alpha follow by the addition theorems
SlopeTurned(lay, c, sn, angularVelocity) ==
  [type |-> "segment",
   x1 |-> lay.lineCenterX - (RoundDiv(lay.halfDx * c, NScale) - RoundDiv(lay.halfDy * sn, NScale)),
   y1 |-> lay.lineCenterY - (RoundDiv(lay.halfDy * c, NScale) + RoundDiv(lay.halfDx * sn, NScale)),
   x2 |-> lay.lineCenterX + (RoundDiv(lay.halfDx * c, NScale) - RoundDiv(lay.halfDy * sn, NScale)),
   y2 |-> lay.lineCenterY + (RoundDiv(lay.halfDy * c, NScale) + RoundDiv(lay.halfDx * sn, NScale)),
   thickness |-> lay.lineThickness,
   centerX |-> lay.lineCenterX, centerY |-> lay.lineCenterY,
   angularVelocity |-> angularVelocity]

SlopeAt(lay, alpha, angularVelocity) ==
  SlopeTurned(lay, Cos(alpha), Sin(alpha), angularVelocity)

\* draw, lines 233-241
AngularVelocityFor(h) ==
  IF h.rotatingLeft THEN -getDifficultyState(h.difficulty).currentManualRotationSpeed
  ELSE IF h.rotatingRight THEN getDifficultyState(h.difficulty).currentManualRotationSpeed
  ELSE getDifficultyState(h.difficulty).currentAutoRotationSpeed

\* draw, line 271
HostOpts(cnv) ==
  [gravity |-> Scaled(HostGravity, cnv), friction |-> HostFriction,
   bounds |-> [width |-> cnv.width, height |-> cnv.height],
   stopThreshold |-> Scaled(HostStopThreshold, cnv)]

\* the jump is applied without asking for the permission
JumpApplies_Unarmed(isJumpRequested, canJump) == isJumpRequested

\* draw, line 258
JumpApplies(isJumpRequested, canJump) == isJumpRequested /\ canJump

\* draw, lines 258-264
Jumped(b, applies, scaledJumpStrengthY) ==
  IF applies
  THEN [b EXCEPT !.vy = IF b.dy > 0 THEN scaledJumpStrengthY ELSE b.vy + scaledJumpStrengthY]
  ELSE b

\* draw, lines 285-287 and 300-302
Directed(b, speed) ==
  [b EXCEPT !.speed = speed, !.dx = RoundDiv(b.vx * NScale, speed),
            !.dy = RoundDiv(b.vy * NScale, speed)]

\* draw, lines 281-288
Normalised(b, minSpeed) ==
  IF b.speed < minSpeed THEN [b EXCEPT !.vx = 0, !.vy = 0] ELSE Directed(b, Hypot(b.vx, b.vy))

\* draw, lines 294-303
Clamped(b, totalVelocity, scaledMaxSpeed) ==
  IF totalVelocity > scaledMaxSpeed
  THEN Directed([b EXCEPT !.vx = RoundDiv(b.vx * scaledMaxSpeed, totalVelocity),
                          !.vy = RoundDiv(b.vy * scaledMaxSpeed, totalVelocity)],
                scaledMaxSpeed)
  ELSE b

SpeedLimited(b, scaledMaxSpeed) == Clamped(b, Hypot(b.vx, b.vy), scaledMaxSpeed)

\* draw, line 375
WallFlipped(b, cnv) ==
  IF b.x + b.r > cnv.width \/ b.x - b.r < 0 THEN [b EXCEPT !.vx = -b.vx] ELSE b

\* draw, lines 278-303 and 375: the ball kept by the host after the step returned res
Kept(res, r, cnv, currentMaxSpeed) ==
  WallFlipped(
    SpeedLimited(
      Normalised([x |-> res.x, y |-> res.y, dx |-> res.dx, dy |-> res.dy, speed |-> res.speed,
                  r |-> r, vx |-> res.vx, vy |-> res.vy],
                 Scaled(HostStopThreshold, cnv)),
      Scaled(currentMaxSpeed, cnv)),
    cnv)

\* history: whether, in this game, a jump was applied with no contact reported since
Since(h, applies, contact) ==
  IF contact THEN "contact" ELSE IF applies THEN "airborne" ELSE h.sinceJump

MaxFrames == 110

MaxEvents == 3

EventEvery == 10

\* main.mjs, lines 149-160
checkLaserCollision(ball, laser) ==
  Sq(ball.x - Max(laser.x, Min(ball.x, laser.x + laser.width)))
    + Sq(ball.y - Max(laser.y, Min(ball.y, laser.y + laser.height))) < ball.r * ball.r

\* draw, line 339: the laser moved by one frame of deltaTime ms
MovedLaser(laser, deltaTime) ==
  [laser EXCEPT !.x = laser.x + RoundDiv(laser.speed * laser.direction * 60 * deltaTime, 1000)]

\* draw, lines 337-354: the lasers moved, those that left the screen without a hit removed
MovedLasers(lasers, deltaTime, b, cnv) ==
  LET Stays(l) == \/ checkLaserCollision(b, l)
                  \/ IF l.direction = 1 THEN l.x < cnv.width ELSE l.x + l.width > 0
  IN  SelectSeq([i \in 1..Len(lasers) |-> MovedLaser(lasers[i], deltaTime)], Stays)

\* draw, lines 336-345
hitByLaser(lasers, b) == \E i \in 1..Len(lasers) : checkLaserCollision(b, lasers[i])

\* a frame whose game-over check looks at the lasers only, not at the ground
HostAfter_LaserOnly(h, applies, contact, b, cnv) ==
  [h EXCEPT !.canJump = IF contact THEN TRUE ELSE IF applies THEN FALSE ELSE h.canJump,
            !.lasers = MovedLasers(h.lasers, h.deltaTime, b, cnv),
            !.gameState = IF hitByLaser(MovedLasers(h.lasers, h.deltaTime, b, cnv), b)
                          THEN "gameOver" ELSE h.gameState,
            !.alpha = h.alpha + (AScale \div WScale) * AngularVelocityFor(h),
            !.sinceJump = Since(h, applies, contact),
            !.jumps = Min(2, h.jumps + IF applies THEN 1 ELSE 0)]

\* draw, lines 258-264, 306-308, 336-378: the host's own state after the frame; one
\* more input event may follow the end of a game
HostAfter(h, applies, contact, b, cnv) ==
  [h EXCEPT !.canJump = IF contact THEN TRUE ELSE IF applies THEN FALSE ELSE h.canJump,
            !.lasers = MovedLasers(h.lasers, h.deltaTime, b, cnv),
            !.gameState = IF \/ hitByLaser(MovedLasers(h.lasers, h.deltaTime, b, cnv), b)
                             \/ b.y >= cnv.height - b.r
                          THEN "gameOver" ELSE h.gameState,
            !.events = IF \/ hitByLaser(MovedLasers(h.lasers, h.deltaTime, b, cnv), b)
                          \/ b.y >= cnv.height - b.r
                       THEN Min(h.events, MaxEvents - 1) ELSE h.events,
            !.alpha = h.alpha + (AScale \div WScale) * AngularVelocityFor(h),
            !.sinceJump = Since(h, applies, contact),
            !.jumps = Min(2, h.jumps + IF applies THEN 1 ELSE 0)]

FrameCommit(h, b, applies, state, hits, res, cnv) ==
  /\ body' = Kept(res, b.r, cnv, getDifficultyState(h.difficulty).currentMaxSpeed)
  /\ host' = HostAfter(h, applies, res.contact,
                       Kept(res, b.r, cnv, getDifficultyState(h.difficulty).currentMaxSpeed),
                       cnv)
  /\ call' = [op |-> "frame", host |-> h, before |-> b, state |-> state, hits |-> hits,
              result |-> res]

FrameResolve(h, b, applies, state, hits, cnv) ==
  FrameCommit(h, b, applies, state, hits, Resolve(state, hits, HostOpts(cnv)), cnv)

FramePhysics(h, b, applies, state, obstacles, cnv) ==
  FrameResolve(h, b, applies, state, Detect(state, HostOpts(cnv), obstacles), cnv)

\* draw, lines 212-378, in a playing frame
FramePlaying(h, b, cnv) ==
  FramePhysics(h, b, JumpApplies(h.jump, h.canJump),
               Jumped(b, JumpApplies(h.jump, h.canJump), Scaled(JUMP_STRENGTH_Y, cnv)),
               << SlopeAt(updateLayout(cnv), h.alpha, AngularVelocityFor(h)) >>, cnv)

\* the time between two frames, in ms
FrameMs == 40

\* the time of the first frame, in ms
LoadMs == 1000

\* Math.random() < 0.5 (line 318) and Math.random() in thousandths (line 321)
RandomDraws == { [left |-> TRUE, y |-> 400], [left |-> FALSE, y |-> 900] }

\* Math.random is called in the frames that spawn a laser (line 316) only
DrawsAt(h, timestamp) ==
  IF timestamp >= h.nextLaserSpawnTime THEN RandomDraws ELSE { [left |-> TRUE, y |-> 0] }

\* draw, lines 316-333: a laser is spawned when its time has come
Spawned(h, timestamp, ds, cnv, draw) ==
  IF timestamp >= h.nextLaserSpawnTime
  THEN [h EXCEPT !.lasers =
                    Append(h.lasers,
                           [x |-> IF draw.left THEN -Scaled(ds.laserWidth, cnv) ELSE cnv.width,
                            y |-> RoundDiv(draw.y * (RoundDiv(cnv.height * 3, 4)
                                                      - Scaled(ds.laserHeight, cnv)), 1000)
                                  + Px(1),
                            width |-> Scaled(ds.laserWidth, cnv),
                            height |-> Scaled(ds.laserHeight, cnv),
                            speed |-> Scaled(ds.laserSpeed, cnv),
                            direction |-> IF draw.left THEN 1 ELSE -1]),
                 !.nextLaserSpawnTime = timestamp + ds.laserSpawnInterval]
  ELSE h

\* draw, lines 171-172 and 216-223: the frame's time, difficulty and score
Ticked(h, timestamp) ==
  [h EXCEPT !.deltaTime = timestamp - h.now,
            !.now = timestamp,
            !.difficulty = updateDifficulty(initDifficulty(h.difficulty, timestamp), timestamp),
            !.score = scoreUpdate(h.score, timestamp),
            !.highScore = Max(h.highScore, getScore(scoreUpdate(h.score, timestamp)))]

\* draw, lines 171-172, 216-223 and 316-333: what a playing frame does besides moving the
\* ball, its platform and the lasers it has
Timed(h, timestamp, cnv, draw) ==
  Spawned(Ticked(h, timestamp), timestamp,
          getDifficultyState(Ticked(h, timestamp).difficulty), cnv, draw)

\* an input event may arrive between two frames: every EventEvery frames during play, at
\* any time otherwise
EventSlot ==
  /\ host.events < MaxEvents
  /\ host.gameState = "playing" => n % EventEvery = 0

\* draw, in a frame of the running game
Frame ==
  /\ host.gameState = "playing"
  /\ n < MaxFrames
  /\ \E draw \in DrawsAt(host, host.now + FrameMs) :
       FramePlaying(Timed(host, host.now + FrameMs, world, draw), body, world)
  /\ n' = n + 1
  /\ UNCHANGED <<world, start>>

\* draw, in a frame of the menu or after the game is over: no game logic runs
FrameIdle ==
  /\ host.gameState # "playing"
  /\ call.op # "idle"
  /\ call' = [op |-> "idle", host |-> host, before |-> body]
  /\ UNCHANGED <<world, body, start, n, host>>

\* the sets of active touches an event may carry, by clientX: none, one finger on the left,
\* on the right or on the middle line, two fingers on either side, two on the left
TouchLists ==
  { << >>, << Px(100) >>, << Px(200) >>, << Px(150) >>, << Px(100), Px(200) >>,
    << Px(40), Px(100) >> }

\* touch.mjs, lines 29-39: the halves of the screen that hold a touch
TouchZones(touches, screenWidth) ==
  [hasLeft  |-> \E i \in 1..Len(touches) : 2 * touches[i] < screenWidth,
   hasRight |-> \E i \in 1..Len(touches) : ~(2 * touches[i] < screenWidth)]

\* a handler that sets the rotation flags whether or not the touches make a jump
updateTouchRotationFromTouches_Both(h, hasLeft, hasRight) ==
  IF h.gameState # "playing"
  THEN [h EXCEPT !.rotatingLeft = FALSE, !.rotatingRight = FALSE, !.jump = FALSE]
  ELSE [h EXCEPT !.jump = hasLeft /\ hasRight,
                 !.rotatingLeft = hasLeft,
                 !.rotatingRight = hasRight]

\* touch.mjs, lines 20-54 and 71: the flags after an event with the given touches
updateTouchRotationFromTouches(h, hasLeft, hasRight) ==
  IF h.gameState # "playing"
  THEN [h EXCEPT !.rotatingLeft = FALSE, !.rotatingRight = FALSE, !.jump = FALSE]
  ELSE [h EXCEPT !.jump = hasLeft /\ hasRight,
                 !.rotatingLeft = hasLeft /\ ~hasRight,
                 !.rotatingRight = hasRight /\ ~hasLeft]

\* touchstart, touchmove, touchend or touchcancel
Touch ==
  /\ EventSlot
  /\ \E touches \in TouchLists :
       /\ host' = [updateTouchRotationFromTouches(host,
                       TouchZones(touches, world.width).hasLeft,
                       TouchZones(touches, world.width).hasRight)
                     EXCEPT !.events = host.events + 1]
       /\ call' = [op |-> "touch", host |-> host, before |-> body, touches |-> touches]
  /\ UNCHANGED <<world, body, start, n>>

\* resetBallAndGame, lines 81-100
resetBall(b, lay) ==
  [b EXCEPT !.x = SpawnX(lay), !.y = SpawnY(lay, b.r), !.vx = 0, !.vy = 0, !.dx = 0, !.dy = 0]

\* resetBallAndGame(performance.now()), lines 85-99: what is reset besides the ball
resetGame(h, timestamp) ==
  [h EXCEPT !.alpha = 0, !.canJump = TRUE, !.lasers = << >>,
            !.nextLaserSpawnTime = timestamp + BASE_LASER_SPAWN_INTERVAL,
            !.difficulty = resetDifficulty(h.difficulty, timestamp),
            !.score = scoreStart(h.score, timestamp)]

\* overlay.mjs, lines 191-194: the start button of the menu and game-over overlay; the
\* time stands still between the last frame of a game and the start of the next
StartGame ==
  /\ host.gameState # "playing"
  /\ host.events < MaxEvents
  /\ body' = resetBall(body, updateLayout(world))
  /\ host' = [resetGame(host, host.now)
                EXCEPT !.gameState = "playing",
                       !.sinceJump = "none", !.jumps = 0, !.events = host.events + 1]
  /\ call' = [op |-> "start", host |-> host, before |-> body]
  /\ UNCHANGED <<world, start, n>>

\* resize, lines 102-120, of a window that keeps its size
placeBall(b, lay) ==
  [b EXCEPT !.x = SpawnX(lay), !.y = SpawnY(lay, b.r), !.vx = 0, !.vy = 0]

Resize ==
  /\ EventSlot
  /\ body' = IF host.gameState # "playing" THEN placeBall(body, updateLayout(world)) ELSE body
  /\ host' = [host EXCEPT !.canJump = IF host.gameState # "playing" THEN TRUE ELSE host.canJump,
                          !.events = host.events + 1]
  /\ call' = [op |-> "resize", host |-> host, before |-> body]
  /\ UNCHANGED <<world, start, n>>

\* after main() has run: the menu is shown and resize() has placed the ball
HostInit ==
  /\ world = Canvas
  /\ body = [x |-> SpawnX(updateLayout(Canvas)),
             y |-> SpawnY(updateLayout(Canvas), radius(Canvas)),
             dx |-> 0, dy |-> 0, speed |-> InitialSpeed, r |-> radius(Canvas),
             vx |-> 0, vy |-> 0]
  /\ start = body
  /\ call = NoCall
  /\ n = 0
  /\ host = [gameState |-> "menu", canJump |-> TRUE, jump |-> FALSE,
             rotatingLeft |-> FALSE, rotatingRight |-> FALSE, alpha |-> 0,
             events |-> 0, sinceJump |-> "none", jumps |-> 0,
             now |-> LoadMs, deltaTime |-> 0, score |-> ScoreTracker, highScore |-> 0,
             difficulty |-> Difficulty, lasers |-> << >>, nextLaserSpawnTime |-> 0]

HostNext == Frame \/ FrameIdle \/ Touch \/ StartGame \/ Resize

SpecHost == HostInit /\ [][HostNext]_vars

\* ScoreTracker on its own: body is the tracker, n the clock (performance.now() and the
\* frame timestamps, in ms), start the time of the last start() call, -1 before the first. The clock may stand
\* at 0 when start() is called.
MaxClock == 6000

\* the time that passes before a call
Delays == {0, 300, 1000, 1700}

ScoreInit ==
  /\ world = [width |-> 0, height |-> 0]
  /\ body = ScoreTracker
  /\ start = -1
  /\ call = NoCall
  /\ n = 0
  /\ host = NoHost

\* start() or update(timestamp), after some time
ScoreNext ==
  \E d \in Delays :
    /\ n + d <= MaxClock
    /\ n' = n + d
    /\ \/ /\ body' = scoreStart(body, n + d)
          /\ start' = n + d
          /\ call' = [op |-> "start", before |-> body]
       \/ /\ body' = scoreUpdate(body, n + d)
          /\ start' = start
          /\ call' = [op |-> "update", timestamp |-> n + d, before |-> body]
    /\ UNCHANGED <<world, host>>

SpecScore == ScoreInit /\ [][ScoreNext]_vars

\* difficulty.mjs on its own: body holds the module's variables, n is the clock, which
\* gives each call its timestamp; the calls are ten times further apart than the score
\* tracker's, so that the ramp starts and reaches its floor.
DifficultyInit ==
  /\ world = [width |-> 0, height |-> 0]
  /\ body = Difficulty
  /\ start = body
  /\ call = NoCall
  /\ n = 0
  /\ host = NoHost

\* initDifficulty, resetDifficulty or updateDifficulty, after some time
DifficultyNext ==
  \E d \in Delays :
    /\ n + 10 * d <= 20 * MaxClock
    /\ n' = n + 10 * d
    /\ \/ /\ body' = initDifficulty(body, n + 10 * d)
          /\ call' = [op |-> "initDifficulty", before |-> body]
       \/ /\ body' = resetDifficulty(body, n + 10 * d)
          /\ call' = [op |-> "resetDifficulty", before |-> body]
       \/ /\ body' = updateDifficulty(body, n + 10 * d)
          /\ call' = [op |-> "updateDifficulty", before |-> body]
    /\ UNCHANGED <<world, start, host>>

SpecDifficulty == DifficultyInit /\ [][DifficultyNext]_vars

\* overlay.mjs: the design selection of OverlayManager. The record o holds the closure's
\* variables: gameState, currentDesignId, lastKnownHighScore, the ids of the buttons that
\* carry the class locked, and what the design-change callback has seen: the id last
\* passed to it (-1 before its first call) and the number of its calls.
UNLOCK_SCORES == <<0, 20, 50, 100, 200>>

\* getBallDesigns (src/js/collision.mjs, imported as draw.mjs): the ids of the five designs
Designs == 0..4

\* overlay.mjs, line 67
requiredScore(designId) ==
  IF designId + 1 \in DOMAIN UNLOCK_SCORES THEN UNLOCK_SCORES[designId + 1] ELSE 9999

\* overlay.mjs, lines 11-18: the closure's variables before init
OverlayManager ==
  [gameState |-> "menu", currentDesignId |-> 0, lastKnownHighScore |-> 0, locked |-> {},
   passed |-> -1, callbacks |-> 0]

\* overlay.mjs, lines 125-141
setCurrentDesign(o, newDesignId) ==
  IF newDesignId \in o.locked THEN o ELSE [o EXCEPT !.currentDesignId = newDesignId]

\* overlay.mjs, lines 110-113: the fallback to design 0 where the selected one is locked
FallenBack(o, currentHighScore) ==
  IF \/ o.currentDesignId >= Len(UNLOCK_SCORES)
     \/ currentHighScore < UNLOCK_SCORES[o.currentDesignId + 1]
  THEN [o EXCEPT !.currentDesignId = 0, !.passed = 0, !.callbacks = o.callbacks + 1]
  ELSE o

\* overlay.mjs, lines 57-120, for the buttons rendered from currentHighScore
Rendered(o, currentHighScore) ==
  [setCurrentDesign(o, o.currentDesignId) EXCEPT !.lastKnownHighScore = currentHighScore]

createDesignButtons(o, currentHighScore) ==
  Rendered(FallenBack([o EXCEPT !.locked = { id \in Designs :
                                              currentHighScore < requiredScore(id) }],
                      currentHighScore),
           currentHighScore)

\* a click listener that selects without looking at the class locked
clickDesign_Unchecked(o, designId) ==
  [setCurrentDesign(o, designId) EXCEPT !.passed = designId, !.callbacks = o.callbacks + 1]

\* overlay.mjs, lines 92-103: the click listener of the button of designId
clickDesign(o, designId) ==
  IF designId \in o.locked THEN o
  ELSE [setCurrentDesign(o, designId) EXCEPT !.passed = designId,
                                            !.callbacks = o.callbacks + 1]

\* overlay.mjs, lines 207-222 with showOverlay, 149-172
setGameState(o, newState, currentHighScore) ==
  IF newState = "playing" THEN [o EXCEPT !.gameState = newState]
  ELSE createDesignButtons([o EXCEPT !.gameState = newState], currentHighScore)

\* overlay.mjs, lines 234-250
updateScoreDisplay(o, currentHighScore) ==
  IF o.gameState # "playing" /\ currentHighScore > o.lastKnownHighScore
  THEN createDesignButtons(o, currentHighScore)
  ELSE o

\* overlay.mjs, lines 180-198: init renders the buttons twice (186 and, in showOverlay, 171)
init(o, initialHighScore) ==
  createDesignButtons(createDesignButtons(o, initialHighScore), initialHighScore)

MaxOverlayOps == 4

\* the high scores passed to the overlay
HighScores == {0, 20, 60, 250}

OverlayInit ==
  /\ world = [width |-> 0, height |-> 0]
  /\ body = [x |-> 0, y |-> 0]
  /\ start = body
  /\ call = NoCall
  /\ n = 0
  /\ host \in { init(OverlayManager, hs) : hs \in HighScores }

\* a click on a design button, setGameState or updateScoreDisplay
OverlayNext ==
  /\ n < MaxOverlayOps
  /\ n' = n + 1
  /\ \/ \E id \in Designs :
          /\ host' = clickDesign(host, id)
          /\ call' = [op |-> "click", designId |-> id, before |-> host]
     \/ \E st \in {"menu", "playing", "gameOver"}, hs \in HighScores :
          /\ host' = setGameState(host, st, hs)
          /\ call' = [op |-> "setGameState", before |-> host]
     \/ \E hs \in HighScores :
          /\ host' = updateScoreDisplay(host, hs)
          /\ call' = [op |-> "updateScoreDisplay", before |-> host]
  /\ UNCHANGED <<world, body, start>>

SpecOverlay == OverlayInit /\ [][OverlayNext]_vars

\* ------------------------------------------------------------------------
\* Measurements used by the properties; none of them is used by the model of
\* the code above.
\* ------------------------------------------------------------------------
PenTol == 5

DistTol == 3

\* a lower bound of the length of (ax, ay) that is exact below 30 px
SafeHypot(ax, ay) ==
  IF Max(Abs(ax), Abs(ay)) > 30000 THEN Max(Abs(ax), Abs(ay)) ELSE Hypot(ax, ay)

\* distance from (px, py) to the finite segment of o, by the perpendicular distance to
\* its line where the foot of the perpendicular lies on the segment, else to the
\* nearer endpoint
SegDist(px, py, o) ==
  LET vx    == o.x2 - o.x1
      vy    == o.y2 - o.y1
      len   == Isqrt(Coarse(vx) * Coarse(vx) + Coarse(vy) * Coarse(vy))
      ux    == RoundDiv(Coarse(vx) * NScale, len)
      uy    == RoundDiv(Coarse(vy) * NScale, len)
      along == RoundDiv(Coarse(px - o.x1) * ux + Coarse(py - o.y1) * uy, NScale)
      perp  == RoundDiv((px - o.x1) * uy, NScale) - RoundDiv((py - o.y1) * ux, NScale)
  IN  IF len = 0 THEN SafeHypot(px - o.x1, py - o.y1)
      ELSE IF along <= 0 THEN SafeHypot(px - o.x1, py - o.y1)
      ELSE IF along >= len THEN SafeHypot(px - o.x2, py - o.y2)
      ELSE Abs(perp)

\* distance from (px, py) to the rectangle of o (0 inside it)
RectDist(px, py, o) ==
  LET ex == IF px < o.x THEN o.x - px ELSE IF px > o.x + o.w THEN px - (o.x + o.w) ELSE 0
      ey == IF py < o.y THEN o.y - py ELSE IF py > o.y + o.h THEN py - (o.y + o.h) ELSE 0
  IN  SafeHypot(ex, ey)

ObstacleDist(px, py, o) ==
  IF o.type = "segment" THEN SegDist(px, py, o) ELSE RectDist(px, py, o)

\* body radius plus half the thickness of a segment; the body radius for a rectangle
EffRadius(o, r) ==
  IF o.type = "segment" THEN r + RoundDiv(o.thickness, 2) ELSE r

AxisAligned(o) == o.type = "rect" \/ o.x1 = o.x2 \/ o.y1 = o.y2

IsStep == call.op = "step"

\* the step call resolved a contact
Resolved == IsStep /\ call.result.contact

\* the hit that the last step resolved
TheHit == DominantHit(call.hits)

\* the position handed to the detector by the last call
ProbeX == IF IsStep THEN call.state.x + call.state.vx ELSE call.cx

ProbeY == IF IsStep THEN call.state.y + call.state.vy + world.opts.gravity ELSE call.cy

ProbeR == IF IsStep THEN call.state.r ELSE call.cr

\* ------------------------------------------------------------------------
\* C1  Non-penetration.
\* ------------------------------------------------------------------------
\* C1: after every step that resolves a contact on obstacle o, the returned
\* centre is at least the effective radius (minus a tolerance) away from o.
C1_NonPenetrationAll ==
  Resolved =>
    ObstacleDist(call.result.x, call.result.y, TheHit.source)
      >= EffRadius(TheHit.source, call.state.r) - PenTol

\* What the push-out does guarantee (C1 restricted): the same, for every resolved contact
\* whose normal is not the zero vector, i.e. whose tentative centre does not coincide with
\* the obstacle's closest point.
C1_NonPenetration ==
  (Resolved /\ (TheHit.nx # 0 \/ TheHit.ny # 0)) =>
    ObstacleDist(call.result.x, call.result.y, TheHit.source)
      >= EffRadius(TheHit.source, call.state.r) - PenTol

\* a contact with a slanted normal and more than 1 px of penetration was pushed out
C1_Witness ==
  /\ Resolved
  /\ TheHit.nx # 0 /\ TheHit.ny # 0
  /\ TheHit.penetration > Px(1)
  /\ ObstacleDist(call.result.x, call.result.y, TheHit.source)
       >= EffRadius(TheHit.source, call.state.r) - PenTol

\* ------------------------------------------------------------------------
\* C3  The contact flag.
\* ------------------------------------------------------------------------
\* C3: the contact flag returned by step is true exactly when the detector, run on
\* (x + vx0, y + vy0 + gravity), returns at least one hit; a step without a hit moves the
\* body to that position (the airborne branch) and returns the flag false.
C3_ContactFlag ==
  IsStep =>
    LET found == Len(checkCircleCollisions(call.state.x + call.state.vx,
                       call.state.y + call.state.vy + gravityOf(world.opts),
                       call.state.r, world.obstacles)) > 0
    IN  /\ call.result.contact <=> found
        /\ ~found => (call.result.x = call.state.x + call.state.vx
                      /\ call.result.y = call.state.y + call.state.vy + gravityOf(world.opts)
                      /\ ~call.result.contact)

\* a step whose contact exists only because of the gravity advance
C3_Witness ==
  /\ IsStep /\ call.result.contact
  /\ Len(checkCircleCollisions(call.state.x + call.state.vx, call.state.y + call.state.vy,
                               call.state.r, world.obstacles)) = 0

\* ------------------------------------------------------------------------
\* C10  Segment (capsule) detection.
\* ------------------------------------------------------------------------
HitsOn(o) == SelectSeq(call.hits, LAMBDA h : h.source = o)

\* C10: for every segment obstacle the detector emits a hit iff the distance d from the
\* centre to the finite segment is <= r + thickness/2, with penetration (r + thickness/2) - d
\* (exactly for axis-aligned segments, within DistTol for slanted ones).
C10_SegmentDetection ==
  call.op \in {"step", "detect"} =>
    \A i \in 1..Len(world.obstacles) :
      LET o    == world.obstacles[i]
          d    == SegDist(ProbeX, ProbeY, o)
          rEff == ProbeR + RoundDiv(o.thickness, 2)
          tol  == IF AxisAligned(o) THEN 0 ELSE DistTol
          hs   == HitsOn(o)
      IN  o.type = "segment" =>
            /\ Len(hs) <= 1
            /\ d <= rEff - tol => Len(hs) = 1
            /\ d > rEff + tol => Len(hs) = 0
            /\ Len(hs) = 1 => Abs(hs[1].penetration - (rEff - d)) <= tol
            /\ d = 0 => (Len(hs) = 1 /\ hs[1].penetration = rEff)

\* the detector was run with the centre on a segment and reported the full effective
\* radius as penetration
C10_Witness ==
  /\ call.op \in {"step", "detect"}
  /\ \E i \in 1..Len(call.hits) :
       /\ call.hits[i].kind = "segment"
       /\ SegDist(ProbeX, ProbeY, call.hits[i].source) = 0
       /\ call.hits[i].penetration = ProbeR + RoundDiv(call.hits[i].source.thickness, 2)

\* ------------------------------------------------------------------------
\* C2  Boundary containment.
\* ------------------------------------------------------------------------
WorldBounds == boundsOf(world.opts)

\* C2: a step from a state at a world-bound edge with outward velocity returns that
\* velocity component with its sign flipped (at least: no longer outward), and the body
\* position never leaves [0, width] x [0, height].
C2_BoundaryContainment ==
  /\ IsStep =>
       LET s == call.state
           q == call.result
       IN  /\ (s.x >= WorldBounds.width - s.r /\ s.vx > 0) => q.vx <= 0
           /\ (s.x <= s.r /\ s.vx < 0) => q.vx >= 0
           /\ (s.y >= WorldBounds.height - s.r /\ s.vy > 0) => q.vy <= 0
           /\ (s.y <= s.r /\ s.vy < 0) => q.vy >= 0
  /\ 0 <= body.x /\ body.x <= WorldBounds.width
  /\ 0 <= body.y /\ body.y <= WorldBounds.height

\* ------------------------------------------------------------------------
\* C5  Energy bound on resting contact.
\* ------------------------------------------------------------------------
StaticSegment(o) ==
  /\ o.type = "segment"
  /\ ("angularVelocity" \in DOMAIN o => o.angularVelocity = 0)

\* the run started with zero velocity, touching the surface of a single non-rotating segment
RestStart ==
  /\ Len(world.obstacles) = 1
  /\ StaticSegment(world.obstacles[1])
  /\ start.vx = 0 /\ start.vy = 0
  /\ SegDist(start.x, start.y, world.obstacles[1]) = EffRadius(world.obstacles[1], start.r)

\* C5 as claimed: from rest on any non-rotating segment, the speed stays within
\* stopThreshold of zero after any number of steps.
C5_RestingAll ==
  RestStart => Hypot(body.vx, body.vy) <= stopThresholdOf(world.opts)

\* the segment o is horizontal and the point x lies over it, so that the contact normal
\* is vertical
FlatUnder(o, x) == o.y1 = o.y2 /\ Min(o.x1, o.x2) <= x /\ x <= Max(o.x1, o.x2)

\* C5 amended: from rest on a horizontal non-rotating segment (contact normal vertical),
\* after any number of steps the velocity is exactly zero and the body has not moved.
C5_RestingFlat ==
  (RestStart /\ FlatUnder(world.obstacles[1], start.x)) =>
    /\ body.vx = 0 /\ body.vy = 0
    /\ body.x = start.x /\ body.y = start.y

\* five steps in resting contact on the horizontal segment
C5_Witness ==
  /\ RestStart /\ FlatUnder(world.obstacles[1], start.x)
  /\ n >= 5 /\ Resolved
  /\ TheHit.penetration = gravityOf(world.opts)
  /\ body.vy = 0

\* ------------------------------------------------------------------------
\* C6  Restitution scaling.
\* ------------------------------------------------------------------------
RestTol == 2

RestitutionValues == { op.restitution : op \in OptsSet }

\* component of the velocity (vx, vy) along the normal of the resolved hit
AlongNormal(vx, vy) == Dot(vx, vy, TheHit.nx, TheHit.ny)

\* the last step resolved an impact on a static segment with relative normal velocity
\* below -0.10
Impact ==
  /\ Resolved
  /\ TheHit.kind = "segment" /\ StaticSegment(TheHit.source)
  /\ AlongNormal(call.state.vx, call.state.vy) < ENERGY_DAMPING_THRESHOLD

ExpectedRebound ==
  RoundDiv(-AlongNormal(call.state.vx, call.state.vy) * restitutionOf(world.opts), FracScale)

\* the normal rebound of the same impact under restitution rs
ReboundWith(rs) ==
  LET q == Resolve(call.state, call.hits, [world.opts EXCEPT !.restitution = rs])
  IN  AlongNormal(q.vx, q.vy)

\* C6 as claimed: every such impact returns a normal velocity of |v| * restitution away
\* from the surface.
C6_RestitutionAll ==
  Impact => Abs(AlongNormal(call.result.vx, call.result.vy) - ExpectedRebound) <= RestTol

\* C6 amended: every such impact returns a normal velocity of |v| * restitution away from
\* the surface, unless the outgoing speed is below stopThreshold, in which case the
\* returned velocity is zero; and a larger restitution never gives a smaller rebound.
C6_Restitution ==
  Impact =>
    /\ \/ Abs(AlongNormal(call.result.vx, call.result.vy) - ExpectedRebound) <= RestTol
       \/ /\ call.result.vx = 0 /\ call.result.vy = 0
          /\ ExpectedRebound < stopThresholdOf(world.opts) + RestTol
    /\ \A r1, r2 \in RestitutionValues : r1 < r2 => ReboundWith(r1) <= ReboundWith(r2)

\* an impact at 2 px/step whose rebound is |v| * restitution and strictly grows with the
\* restitution
C6_Witness ==
  /\ Impact
  /\ AlongNormal(call.state.vx, call.state.vy) <= -2000
  /\ AlongNormal(call.result.vx, call.result.vy) > 0
  /\ Abs(AlongNormal(call.result.vx, call.result.vy) - ExpectedRebound) <= RestTol
  /\ \E r1, r2 \in RestitutionValues : r1 < r2 /\ ReboundWith(r1) < ReboundWith(r2)

\* ------------------------------------------------------------------------
\* C7  The settling scenario.
\* ------------------------------------------------------------------------
SettleSteps == 27

\* the body of radius 15 dropped from (50, 50) with zero velocity, gravity 0.2, friction
\* 0.995, restitution 0.3, onto the obstacle list ol
DropOnto(ol) ==
  /\ world.obstacles = ol
  /\ gravityOf(world.opts) = 200 /\ frictionOf(world.opts) = 995
  /\ restitutionOf(world.opts) = 300
  /\ start = BodyAt(Px(50), Px(50), 0, 0)

SameMotion(q, b) == q.x = b.x /\ q.y = b.y /\ q.vx = b.vx /\ q.vy = b.vy

\* one more step returns the body's position and velocity unchanged, so every further
\* step does
Steady == SameMotion(step(body, world.obstacles, world.opts), body)

\* C7: dropped onto the static segment (0,100)-(100,100) of thickness 10, the body keeps
\* x = 50 and zero horizontal velocity in every step, and from step SettleSteps on its vertical
\* velocity is zero and stays zero: it rests at y = 80.
C7_Settling ==
  DropOnto(<< FlatStatic >>) =>
    /\ body.x = Px(50) /\ body.vx = 0
    /\ n >= SettleSteps => (body.vy = 0 /\ body.y = Px(80) /\ Steady)

\* the dropped body has bounced and come to rest on the static segment
C7_Witness ==
  /\ DropOnto(<< FlatStatic >>)
  /\ n >= SettleSteps /\ Resolved
  /\ body.vy = 0 /\ body.y = Px(80) /\ Steady

\* ------------------------------------------------------------------------
\* C8  The rotating-platform scenario.
\* ------------------------------------------------------------------------
\* C8 as claimed: dropped onto the same segment turning at 0.02 rad/step, the body's
\* horizontal velocity becomes non-zero; so the body never comes to a steady state with zero
\* horizontal velocity at the x it was dropped from.
C8_RotatingDrift ==
  DropOnto(<< FlatRotating >>) =>
    ~(n >= 1 /\ Steady /\ body.vx = 0 /\ body.x = start.x)

\* C8 amended: dropped onto the same segment turning at 0.02 rad/step about its midpoint
\* (50, 100), the body meets the segment at the rotation centre, where the obstacle's
\* velocity is zero: its horizontal velocity is zero in every step, x stays 50, and it
\* settles at y = 80 as on the static segment.
C8_RotatingNoDrift ==
  DropOnto(<< FlatRotating >>) =>
    /\ body.vx = 0 /\ body.x = Px(50)
    /\ Resolved => ObstacleVelocity(TheHit) = [obsVx |-> 0, obsVy |-> 0]
    /\ n >= SettleSteps => (body.vy = 0 /\ body.y = Px(80) /\ Steady)

\* the dropped body rests in contact with the turning segment, with zero horizontal velocity
C8_Witness ==
  /\ DropOnto(<< FlatRotating >>)
  /\ n >= SettleSteps /\ Resolved
  /\ TheHit.source.angularVelocity = 20
  /\ body.vx = 0 /\ Steady

\* ------------------------------------------------------------------------
\* C9  Rotating-platform carry.
\* ------------------------------------------------------------------------
CarryTol == 20

\* tangential component of the obstacle's velocity at the contact point of the resolved hit
ContactSpeedAlong ==
  LET tg  == Tangent(TheHit.nx, TheHit.ny)
      obs == ObstacleVelocity(TheHit)
  IN  Dot(obs.obsVx, obs.obsVy, tg.tx, tg.ty)

\* tangential component of the body's returned velocity
BodySpeedAlong ==
  LET tg == Tangent(TheHit.nx, TheHit.ny)
  IN  Dot(call.result.vx, call.result.vy, tg.tx, tg.ty)

\* C9: a body in contact with a segment of angularVelocity > 0 whose motion has reached its
\* steady state has the tangential velocity of the contact point, within CarryTol.
C9_Carry ==
  (Resolved /\ TheHit.kind = "segment" /\ "angularVelocity" \in DOMAIN TheHit.source
     /\ TheHit.source.angularVelocity > 0 /\ Steady) =>
    Abs(BodySpeedAlong - ContactSpeedAlong) <= CarryTol

\* ------------------------------------------------------------------------
\* C4  Jump re-arming in the host frame loop.
\* ------------------------------------------------------------------------
IsFrame == call.op = "frame"

\* the frame changed the vertical velocity before the physics step: the jump impulse
ImpulseApplied == IsFrame /\ call.state.vy # call.before.vy

\* C4: a frame applies the jump impulse exactly when a jump is requested and the jump
\* permission is set, and then clears the permission; the permission is set again only by a
\* frame whose step reports contact, or by the start of a game or a resize outside the
\* game; so in one game no jump is applied after another without a step in between that
\* reported contact.
C4_JumpRearming ==
  /\ IsFrame =>
       /\ ImpulseApplied <=> (call.host.jump /\ call.host.canJump)
       /\ ImpulseApplied => call.state.vy < call.before.vy
       /\ (ImpulseApplied /\ ~call.result.contact) => ~host.canJump
       /\ (host.canJump /\ (~call.host.canJump \/ ImpulseApplied)) => call.result.contact
       /\ ImpulseApplied => call.host.sinceJump # "airborne"
  /\ call.op \in {"touch", "idle"} => host.canJump = call.host.canJump
  /\ (call.op = "resize" /\ call.host.gameState = "playing") => host.canJump = call.host.canJump

\* the second jump of a game is applied, the step after the first one having reported contact
C4_Witness ==
  /\ ImpulseApplied
  /\ host.jumps = 2
  /\ call.host.sinceJump = "contact"

\* ------------------------------------------------------------------------
\* C11  Rectangle detection.
\* ------------------------------------------------------------------------
\* the centre (px, py) lies in the closed rectangle of o
InsideRect(px, py, o) ==
  /\ o.x <= px /\ px <= o.x + o.w
  /\ o.y <= py /\ py <= o.y + o.h

\* the centre is beside a corner of o: its clamped point is a corner and the distance is
\* a square root, compared within DistTol
AtCorner(px, py, o) ==
  /\ (px < o.x \/ px > o.x + o.w)
  /\ (py < o.y \/ py > o.y + o.h)

\* C11: for every rect obstacle the detector emits a hit iff the distance d from the centre
\* to the centre clamped into [x, x+w] x [y, y+h] is <= r, with penetration r - d; a centre
\* inside the rectangle yields d = 0, penetration r and the zero normal.
C11_RectDetection ==
  call.op \in {"step", "detect"} =>
    \A i \in 1..Len(world.obstacles) :
      LET o   == world.obstacles[i]
          d   == RectDist(ProbeX, ProbeY, o)
          tol == IF AtCorner(ProbeX, ProbeY, o) THEN DistTol ELSE 0
          hs  == HitsOn(o)
      IN  o.type = "rect" =>
            /\ Len(hs) <= 1
            /\ d <= ProbeR - tol => Len(hs) = 1
            /\ d > ProbeR + tol => Len(hs) = 0
            /\ Len(hs) = 1 => /\ Abs(hs[1].penetration - (ProbeR - d)) <= tol
                              /\ Abs(hs[1].dist - d) <= tol
                              /\ hs[1].kind = "rect"
            /\ InsideRect(ProbeX, ProbeY, o) =>
                  /\ Len(hs) = 1
                  /\ hs[1].dist = 0 /\ hs[1].penetration = ProbeR
                  /\ hs[1].nx = 0 /\ hs[1].ny = 0
                  /\ hs[1].cp = [x |-> ProbeX, y |-> ProbeY]

\* the detector was run with the centre strictly inside a rectangle and reported the
\* radius as penetration, with the zero normal
C11_Witness ==
  /\ call.op \in {"step", "detect"}
  /\ \E i \in 1..Len(call.hits) :
       LET h == call.hits[i]
       IN  /\ h.kind = "rect"
           /\ h.source.x < ProbeX /\ ProbeX < h.source.x + h.source.w
           /\ h.source.y < ProbeY /\ ProbeY < h.source.y + h.source.h
           /\ h.penetration = ProbeR /\ h.nx = 0 /\ h.ny = 0

\* the detector was run beside a corner of a rectangle, within reach of it
C11_WitnessCorner ==
  /\ call.op \in {"step", "detect"}
  /\ \E i \in 1..Len(call.hits) :
       /\ call.hits[i].kind = "rect"
       /\ AtCorner(ProbeX, ProbeY, call.hits[i].source)
       /\ call.hits[i].penetration > 0

\* ------------------------------------------------------------------------
\* C12  The hit records.
\* ------------------------------------------------------------------------
UnitTol == 2

\* (nx, ny) has length 1, within UnitTol / NScale
IsUnit(nx, ny) == Abs(Isqrt(nx * nx + ny * ny) - NScale) <= UnitTol

\* the hit h is what the detector owes for a centre (px, py) and radius r: a non-negative
\* penetration, a closest point on the obstacle at the obstacle's distance from the
\* centre, and a normal that is the unit vector from that point toward the centre, or the
\* zero vector exactly when the centre is that point
WellFormedHit(h, px, py, r) ==
  /\ h.penetration >= 0
  /\ ObstacleDist(h.cp.x, h.cp.y, h.source) <= DistTol
  /\ Abs(h.dist - ObstacleDist(px, py, h.source)) <= DistTol
  /\ h.dist <= EffRadius(h.source, r)
  /\ (h.nx = 0 /\ h.ny = 0) <=> (px = h.cp.x /\ py = h.cp.y)
  /\ (h.nx # 0 \/ h.ny # 0) =>
       /\ IsUnit(h.nx, h.ny)
       /\ Abs(RoundDiv(h.nx * h.dist, NScale) - (px - h.cp.x)) <= DistTol
       /\ Abs(RoundDiv(h.ny * h.dist, NScale) - (py - h.cp.y)) <= DistTol

\* C12: every hit record returned by the detector has penetration >= 0 and a normal that
\* is the unit vector from the obstacle's closest point toward the centre, or (0,0) when and
\* only when the centre coincides with the closest point; there is no record for an
\* obstacle out of reach, and at most one record per obstacle.
C12_HitRecords ==
  call.op \in {"step", "detect"} =>
    /\ \A i \in 1..Len(call.hits) : WellFormedHit(call.hits[i], ProbeX, ProbeY, ProbeR)
    /\ Len(call.hits) <= Len(world.obstacles)
    /\ \A i \in 1..Len(world.obstacles) :
         /\ Len(HitsOn(world.obstacles[i])) <= 1
         /\ ObstacleDist(ProbeX, ProbeY, world.obstacles[i])
               > EffRadius(world.obstacles[i], ProbeR) + DistTol
             => Len(HitsOn(world.obstacles[i])) = 0
    /\ \A i \in 1..Len(call.hits) : \E j \in 1..Len(world.obstacles) :
         call.hits[i].source = world.obstacles[j]

\* one detection returned two records, one with the zero normal (the centre on the
\* closest point) and one with a unit normal and positive penetration
C12_Witness ==
  /\ call.op \in {"step", "detect"}
  /\ Len(call.hits) = 2
  /\ \E i, j \in 1..2 :
       /\ call.hits[i].nx = 0 /\ call.hits[i].ny = 0
       /\ call.hits[i].cp = [x |-> ProbeX, y |-> ProbeY]
       /\ IsUnit(call.hits[j].nx, call.hits[j].ny)
       /\ call.hits[j].penetration > 0

\* a detection returned a record with a slanted unit normal
C12_WitnessSlanted ==
  /\ call.op \in {"step", "detect"}
  /\ \E i \in 1..Len(call.hits) :
       /\ call.hits[i].nx # 0 /\ call.hits[i].ny # 0
       /\ IsUnit(call.hits[i].nx, call.hits[i].ny)

\* ------------------------------------------------------------------------
\* C13  The returned body state.
\* ------------------------------------------------------------------------
\* the velocity the last step arrived at before its stop-threshold test: the outgoing
\* velocity of the contact, or the gravity-advanced velocity when airborne
OutgoingOf(state, hits, opts) ==
  IF Len(hits) > 0
  THEN Response(Locals(state, opts), Tentative(state, WorkingVelocity(state), gravityOf(opts)),
                DominantHit(hits), Tangent(DominantHit(hits).nx, DominantHit(hits).ny),
                ObstacleVelocity(DominantHit(hits)), opts)
  ELSE [vx |-> WorkingVelocity(state).vx,
        vy |-> WorkingVelocity(state).vy + gravityOf(opts)]

PostStepSpeed ==
  Hypot(OutgoingOf(call.state, call.hits, world.opts).vx,
        OutgoingOf(call.state, call.hits, world.opts).vy)

ForcedStop(q) == q.dx = 0 /\ q.dy = 0 /\ q.speed = 0 /\ q.vx = 0 /\ q.vy = 0

\* speed = hypot(vx, vy) >= stopThreshold and (dx, dy) = (vx, vy) / speed
Moving(q, stopThreshold) ==
  /\ q.speed = Hypot(q.vx, q.vy)
  /\ q.speed >= stopThreshold
  /\ IsUnit(q.dx, q.dy)
  /\ Abs(RoundDiv(q.dx * q.speed, NScale) - q.vx) <= UnitTol
  /\ Abs(RoundDiv(q.dy * q.speed, NScale) - q.vy) <= UnitTol

\* C13: every state returned by step, from the contact or the airborne branch, is either a
\* forced stop (dx = dy = speed = vx = vy = 0), taken exactly when the post-step speed is
\* below stopThreshold, or has speed = hypot(vx, vy) >= stopThreshold and
\* (dx, dy) = (vx / speed, vy / speed); the speed is never strictly between 0 and
\* stopThreshold.
C13_BodyState ==
  IsStep =>
    /\ ForcedStop(call.result) \/ Moving(call.result, stopThresholdOf(world.opts))
    /\ ForcedStop(call.result) <=> PostStepSpeed < stopThresholdOf(world.opts)
    /\ ~ForcedStop(call.result) =>
         /\ call.result.vx = OutgoingOf(call.state, call.hits, world.opts).vx
         /\ call.result.vy = OutgoingOf(call.state, call.hits, world.opts).vy
    /\ ~(0 < call.result.speed /\ call.result.speed < stopThresholdOf(world.opts))

\* a contact step arrived at a non-zero speed below stopThreshold and returned the forced
\* stop
C13_Witness ==
  /\ Resolved
  /\ PostStepSpeed > 0
  /\ ForcedStop(call.result)

\* an airborne step arrived at a non-zero speed below stopThreshold and returned the forced
\* stop
C13_WitnessAirborne ==
  /\ IsStep /\ ~call.result.contact
  /\ PostStepSpeed > 0
  /\ ForcedStop(call.result)

\* a contact step returned a moving state with a slanted direction
C13_WitnessMoving ==
  /\ Resolved
  /\ call.result.dx # 0 /\ call.result.dy # 0
  /\ Moving(call.result, stopThresholdOf(world.opts))

\* ------------------------------------------------------------------------
\* C14  Single dominant contact.
\* ------------------------------------------------------------------------
\* the positions in hits of the hits of greatest penetration
Deepest(hits) ==
  { k \in 1..Len(hits) : \A i \in 1..Len(hits) : hits[k].penetration >= hits[i].penetration }

\* the obstacle o given another angular velocity (about its own centre, or about the
\* origin if it has none)
Spun(o) ==
  [f \in DOMAIN o \cup {"angularVelocity", "centerX", "centerY"} |->
     IF f = "angularVelocity" THEN 500 ELSE IF f \in DOMAIN o THEN o[f] ELSE 0]

\* the hits with the obstacle of every hit but the k-th set spinning
OthersSpun(hits, k) ==
  [i \in 1..Len(hits) |-> IF i = k THEN hits[i] ELSE [hits[i] EXCEPT !.source = Spun(@)]]

\* C14: when the detector returns several hits, step resolves exactly one of them, one of
\* greatest penetration: the returned position is the tentative position plus that hit's
\* normal times its penetration, and the returned state is the one step returns for that
\* hit alone, whatever the angular velocities of the other hits' obstacles.
C14_DominantContact ==
  (IsStep /\ Len(call.hits) >= 2) =>
    \E k \in Deepest(call.hits) :
      /\ call.result.x = ProbeX + RoundDiv(call.hits[k].nx * call.hits[k].penetration, NScale)
      /\ call.result.y = ProbeY + RoundDiv(call.hits[k].ny * call.hits[k].penetration, NScale)
      /\ call.result = Resolve(call.state, << call.hits[k] >>, world.opts)
      /\ call.result = Resolve(call.state, OthersSpun(call.hits, k), world.opts)

\* a step with two hits resolved the second one, which was strictly deeper, while the
\* obstacle of the first one was turning; the body was pushed out along the second normal
C14_Witness ==
  /\ IsStep /\ Len(call.hits) = 2
  /\ call.hits[2].penetration > call.hits[1].penetration
  /\ call.hits[1].source.type = "segment" /\ call.hits[1].source.angularVelocity # 0
  /\ call.hits[1].penetration > 0
  /\ ObstacleVelocity(call.hits[1]) # [obsVx |-> 0, obsVy |-> 0]
  /\ call.hits[1].nx # call.hits[2].nx
  /\ call.result.x # ProbeX

\* ------------------------------------------------------------------------
\* C15  The core does not mutate its inputs.
\* ------------------------------------------------------------------------
SameList(a, b) ==
  /\ Len(a) = Len(b)
  /\ \A i \in 1..Len(a) :
       /\ DOMAIN a[i] = DOMAIN b[i]
       /\ \A f \in DOMAIN a[i] : a[i][f] = b[i][f]

ResultFields == {"x", "y", "dx", "dy", "speed", "vx", "vy", "contact"}

ZeroLength(o) == o.type = "segment" /\ o.x1 = o.x2 /\ o.y1 = o.y2

HitIsNumeric(h) ==
  /\ h.dist \in Int /\ h.nx \in Int /\ h.ny \in Int /\ h.penetration \in Int
  /\ h.cp.x \in Int /\ h.cp.y \in Int

ResultIsNumeric(q) ==
  /\ DOMAIN q = ResultFields
  /\ \A f \in ResultFields \ {"contact"} : q[f] \in Int
  /\ q.contact \in BOOLEAN

\* C16: for every body state and obstacle list, zero-length segments and contacts at
\* distance 0 included, closestPointOnSegment, the detector and step each return a result
\* made of numbers: a zero-length segment yields its first endpoint with t = 0 as closest
\* point (so it is hit as a disc of the effective radius about that point), and a hit at
\* distance 0 has the normal (0,0).
C16_NoError ==
  /\ call.op \in {"step", "detect"} =>
       /\ \A i \in 1..Len(call.hits) :
            /\ HitIsNumeric(call.hits[i])
            /\ call.hits[i].dist = 0 => (call.hits[i].nx = 0 /\ call.hits[i].ny = 0)
       /\ \A i \in 1..Len(world.obstacles) :
            LET o == world.obstacles[i]
            IN  ZeroLength(o) =>
                  /\ closestPointOnSegment(ProbeX, ProbeY, o.x1, o.y1, o.x2, o.y2)
                       = [x |-> o.x1, y |-> o.y1, tn |-> 0, td |-> 1]
                  /\ \A j \in 1..Len(HitsOn(o)) :
                       HitsOn(o)[j].cp = [x |-> o.x1, y |-> o.y1]
                  /\ (Abs(ProbeX - o.x1) <= EffRadius(o, ProbeR) - DistTol /\ ProbeY = o.y1)
                       => Len(HitsOn(o)) = 1
  /\ IsStep => ResultIsNumeric(call.result)

\* a step whose tentative centre was exactly on a zero-length segment: the hit has distance
\* 0 and the zero normal, and step returned a state
C16_Witness ==
  /\ Resolved
  /\ ZeroLength(TheHit.source)
  /\ TheHit.dist = 0 /\ TheHit.nx = 0 /\ TheHit.ny = 0
  /\ TheHit.cp = [x |-> TheHit.source.x1, y |-> TheHit.source.y1]
  /\ ResultIsNumeric(call.result)

\* a step that hit a zero-length segment from a distance, with a slanted normal
C16_WitnessApart ==
  /\ Resolved
  /\ ZeroLength(TheHit.source)
  /\ TheHit.nx # 0 /\ TheHit.ny # 0
  /\ ResultIsNumeric(call.result)

\* ------------------------------------------------------------------------
\* C17  No velocity into the surface.
\* ------------------------------------------------------------------------
NormalTol == 2

\* the obstacle's contact-point velocity along the normal of the resolved hit
ObstacleAlongNormal ==
  AlongNormal(ObstacleVelocity(TheHit).obsVx, ObstacleVelocity(TheHit).obsVy)

\* C17: after every step that resolves a contact, the returned velocity's component along
\* the resolved hit's normal is >= 0 (to NormalTol of rounding), whatever the incoming
\* velocity, the restitution and the obstacle's angular velocity.
C17_NoInwardVelocity ==
  Resolved => AlongNormal(call.result.vx, call.result.vy) >= -NormalTol

\* a contact whose surface was moving away from the body along the normal, so that the
\* matched normal velocity pointed into the surface and was removed: the body keeps
\* moving, with no normal component
C17_Witness ==
  /\ Resolved
  /\ TheHit.nx # 0 \/ TheHit.ny # 0
  /\ ObstacleAlongNormal < -100
  /\ ~ForcedStop(call.result)
  /\ Abs(AlongNormal(call.result.vx, call.result.vy)) <= NormalTol

\* an impact at more than 2 px/step into the surface that returned a velocity away from it
C17_WitnessImpact ==
  /\ Resolved
  /\ AlongNormal(call.state.vx, call.state.vy) < -2000
  /\ AlongNormal(call.result.vx, call.result.vy) > 0

\* ------------------------------------------------------------------------
\* C18  Resting normal response.
\* ------------------------------------------------------------------------
\* the last step resolved a contact in which the body's velocity relative to the obstacle
\* along the normal was not below -0.10 and its gravity-advanced velocity along the normal
\* was not separating
RestingContact ==
  /\ Resolved
  /\ AlongNormal(call.state.vx - ObstacleVelocity(TheHit).obsVx,
                 call.state.vy - ObstacleVelocity(TheHit).obsVy) >= ENERGY_DAMPING_THRESHOLD
  /\ AlongNormal(call.state.vx, call.state.vy + gravityOf(world.opts)) <= 0

C18_WitnessStatic ==
  /\ RestingContact
  /\ StaticSegment(TheHit.source)
  /\ ~ForcedStop(call.result)
  /\ Abs(AlongNormal(call.result.vx, call.result.vy)) <= NormalTol

\* ------------------------------------------------------------------------
\* C19  Obstacle contact velocity.
\* ------------------------------------------------------------------------
Rotating(o) == "angularVelocity" \in DOMAIN o /\ o.angularVelocity # 0

\* the obstacle o with its rotation centre moved by (40, -25) px, or placed there if it
\* has none
Recentred(o) ==
  [f \in DOMAIN o \cup {"centerX", "centerY"} |->
     IF f = "centerX" THEN (IF f \in DOMAIN o THEN o[f] ELSE 0) + Px(40)
     ELSE IF f = "centerY" THEN (IF f \in DOMAIN o THEN o[f] ELSE 0) - Px(25)
     ELSE o[f]]

\* the obstacle o without any rotation field
Unrotated(o) == [f \in DOMAIN o \ {"angularVelocity", "centerX", "centerY"} |-> o[f]]

\* what the last step returns if the resolved hit's obstacle is replaced by src
ResultOn(src) ==
  Resolve(call.state, << [TheHit EXCEPT !.source = src] >>, world.opts)

\* the velocity of the point cp of a body turning at w about (cx, cy)
PointVelocity(w, cpx, cpy, cx, cy) ==
  [obsVx |-> -RoundDiv(w * (cpy - cy), WScale), obsVy |-> RoundDiv(w * (cpx - cx), WScale)]

\* C19: the obstacle velocity used in the resolution of a contact is (0,0) when the
\* resolved obstacle has no angularVelocity or angularVelocity = 0, and the returned state
\* then does not depend on centerX, centerY; otherwise it is
\* (-w * (cp.y - centerY), w * (cp.x - centerX)).
C19_ObstacleVelocity ==
  Resolved =>
    IF Rotating(TheHit.source)
    THEN ObstacleVelocity(TheHit)
           = PointVelocity(TheHit.source.angularVelocity, TheHit.cp.x, TheHit.cp.y,
                           TheHit.source.centerX, TheHit.source.centerY)
    ELSE /\ ObstacleVelocity(TheHit) = [obsVx |-> 0, obsVy |-> 0]
         /\ call.result = ResultOn(Recentred(TheHit.source))
         /\ call.result = ResultOn(Unrotated(TheHit.source))

\* a contact on a segment turning about a pivot off its line, away from the pivot: the
\* contact point moves in x and in y, and the returned velocity is another than on the
\* same segment at rest
C19_Witness ==
  /\ Resolved
  /\ Rotating(TheHit.source)
  /\ ObstacleVelocity(TheHit).obsVx # 0 /\ ObstacleVelocity(TheHit).obsVy # 0
  /\ call.result.vy # ResultOn(Unrotated(TheHit.source)).vy

\* a contact on an obstacle with angularVelocity = 0 and a rotation centre, the body moving
C19_WitnessStatic ==
  /\ Resolved
  /\ "angularVelocity" \in DOMAIN TheHit.source /\ TheHit.source.angularVelocity = 0
  /\ ~ForcedStop(call.result)
  /\ call.result = ResultOn(Recentred(TheHit.source))

\* ------------------------------------------------------------------------
\* C20  Tangential response.
\* ------------------------------------------------------------------------
TangentTol == 2

\* tangentialFriction as claimed: the option, by default the friction
ClaimedTangentialFriction ==
  IF "tangentialFriction" \in DOMAIN world.opts THEN world.opts.tangentialFriction
  ELSE IF "friction" \in DOMAIN world.opts THEN world.opts.friction
  ELSE 995

\* tangentialRetention as claimed: the option, by default 0.6
ClaimedTangentialRetention ==
  IF "tangentialRetention" \in DOMAIN world.opts THEN world.opts.tangentialRetention
  ELSE 600

\* vT_rel: the pre-gravity velocity of the body relative to the obstacle, projected on
\* t = (-ny, nx)
RelativeAlong ==
  Dot(call.state.vx - ObstacleVelocity(TheHit).obsVx,
      call.state.vy - ObstacleVelocity(TheHit).obsVy, -TheHit.ny, TheHit.nx)

\* vObsT: the obstacle's contact-point velocity projected on t
ObstacleAlong ==
  Dot(ObstacleVelocity(TheHit).obsVx, ObstacleVelocity(TheHit).obsVy, -TheHit.ny, TheHit.nx)

\* tangentialFriction * (1 - tangentialRetention) * (vT_rel + gravity * ty)
\*   + tangentialRetention * vT_rel + vObsT
ClaimedAlong ==
  RoundDiv(RoundDiv(ClaimedTangentialFriction * (FracScale - ClaimedTangentialRetention),
                    FracScale)
             * (RelativeAlong + RoundDiv(gravityOf(world.opts) * TheHit.nx, NScale)),
           FracScale)
    + RoundDiv(ClaimedTangentialRetention * RelativeAlong, FracScale)
    + ObstacleAlong

\* the tangential speed the last step computed before its anti-creep clamp
ComputedAlong ==
  TangentialResponse(call.state.vx, call.state.vy, ObstacleVelocity(TheHit),
                     Tangent(TheHit.nx, TheHit.ny), gravityOf(world.opts),
                     tangentialFrictionOf(world.opts), tangentialRetentionOf(world.opts))

\* C20: in a contact step with normal (nx, ny) and tangent t = (-ny, nx), the tangential
\* speed before the anti-creep clamp is tangentialFriction * (1 - tangentialRetention) *
\* (vT_rel + gravity * ty) + tangentialRetention * vT_rel + vObsT (within TangentTol of
\* rounding), with tangentialFriction defaulting to friction and tangentialRetention to 0.6;
\* and it is the tangential component of the returned velocity, unless that one was clamped
\* to zero as a tiny uphill creep or zeroed by the forced stop.
C20_TangentialResponse ==
  Resolved =>
    /\ Abs(ComputedAlong - ClaimedAlong) <= TangentTol
    /\ \/ Abs(BodySpeedAlong - ClaimedAlong) <= TangentTol
       \/ ForcedStop(call.result)
       \/ /\ Abs(ClaimedAlong) < CreepThreshold + TangentTol
          /\ ClaimedAlong * TheHit.nx <= 0
          /\ Abs(BodySpeedAlong) <= TangentTol

\* a contact on an incline, under the default retention: gravity has a tangential
\* component, the body had a tangential velocity, and it is returned with the claimed
\* tangential speed
C20_Witness ==
  /\ Resolved
  /\ TheHit.nx # 0 /\ TheHit.ny # 0
  /\ "tangentialRetention" \notin DOMAIN world.opts
  /\ Abs(RelativeAlong) > 1000
  /\ ~ForcedStop(call.result)
  /\ Abs(ClaimedAlong) > 1000
  /\ Abs(BodySpeedAlong - ClaimedAlong) <= TangentTol

\* a contact under friction 0.9 and an explicit retention of 0.5, on a turning obstacle
\* whose contact point moves along the tangent
C20_WitnessOptions ==
  /\ Resolved
  /\ frictionOf(world.opts) = 900 /\ "tangentialRetention" \in DOMAIN world.opts
  /\ ObstacleAlong # 0
  /\ Abs(RelativeAlong) > 1000
  /\ ~ForcedStop(call.result)
  /\ Abs(BodySpeedAlong - ClaimedAlong) <= TangentTol

\* ------------------------------------------------------------------------
\* C21  The anti-creep clamp.
\* ------------------------------------------------------------------------
\* the tangential speed is tiny and its sign is opposite to the sign of ty
TinyUphill(vAlong, ty) ==
  /\ Abs(vAlong) < 20
  /\ (vAlong < 0 /\ ty > 0) \/ (vAlong > 0 /\ ty < 0)

\* C21: in a contact step the tangential speed is set to 0 exactly when its magnitude is
\* below 0.02 and its sign is opposite to the sign of ty; in every other case, ty = 0
\* included, it is kept: unless the forced stop zeroes the velocity, the returned velocity
\* has that tangential component.
C21_AntiCreep ==
  Resolved =>
    /\ AntiCreep(ComputedAlong, Tangent(TheHit.nx, TheHit.ny).ty)
         = IF TinyUphill(ComputedAlong, TheHit.nx) THEN 0 ELSE ComputedAlong
    /\ ~ForcedStop(call.result) =>
         Abs(BodySpeedAlong - (IF TinyUphill(ComputedAlong, TheHit.nx) THEN 0
                               ELSE ComputedAlong)) <= TangentTol

\* a contact on an incline arrived at a tiny uphill tangential speed and returned a moving
\* state without tangential component
C21_Witness ==
  /\ Resolved
  /\ TinyUphill(ComputedAlong, TheHit.nx) /\ Abs(ComputedAlong) >= 5
  /\ ~ForcedStop(call.result)
  /\ Abs(BodySpeedAlong) <= TangentTol

\* a contact on an incline arrived at a tiny downhill tangential speed and kept it
C21_WitnessDownhill ==
  /\ Resolved
  /\ Abs(ComputedAlong) < 20 /\ Abs(ComputedAlong) >= 5
  /\ ComputedAlong * TheHit.nx > 0
  /\ ~ForcedStop(call.result)
  /\ Abs(BodySpeedAlong - ComputedAlong) <= TangentTol

\* a contact on a horizontal surface (ty = 0) arrived at a tiny tangential speed and kept it
C21_WitnessLevel ==
  /\ Resolved
  /\ TheHit.nx = 0 /\ TheHit.ny # 0
  /\ Abs(ComputedAlong) < 20 /\ Abs(ComputedAlong) >= 5
  /\ ~ForcedStop(call.result)
  /\ Abs(BodySpeedAlong - ComputedAlong) <= TangentTol

\* ------------------------------------------------------------------------
\* C22  The airborne step.
\* ------------------------------------------------------------------------
\* a step whose detector call found no hit
AirborneStep == IsStep /\ call.hits = << >>

\* C22: when the detector finds no hit at the tentative position, step returns the position
\* (x + vx0, y + vy0 + gravity) and the velocity (vx0, vy0 + gravity), horizontal velocity
\* unchanged; only the forced stop, taken when that velocity's magnitude is below
\* stopThreshold, replaces the velocity by zero.
C22_AirborneStep ==
  AirborneStep =>
    /\ ~call.result.contact
    /\ call.result.x = call.state.x + call.state.vx
    /\ call.result.y = call.state.y + call.state.vy + gravityOf(world.opts)
    /\ IF Hypot(call.state.vx, call.state.vy + gravityOf(world.opts))
            < stopThresholdOf(world.opts)
       THEN call.result.vx = 0 /\ call.result.vy = 0
       ELSE /\ call.result.vx = call.state.vx
            /\ call.result.vy = call.state.vy + gravityOf(world.opts)

\* an airborne step of a body moving sideways kept the horizontal velocity and added
\* gravity to the vertical one
C22_Witness ==
  /\ AirborneStep
  /\ call.state.vx # 0
  /\ gravityOf(world.opts) > 0
  /\ call.result.vx = call.state.vx
  /\ call.result.vy = call.state.vy + gravityOf(world.opts)
  /\ call.result.x # call.state.x

\* an airborne step arrived below stopThreshold, returned zero velocity and still advanced
\* the position
C22_WitnessStop ==
  /\ AirborneStep
  /\ call.state.vy + gravityOf(world.opts) # 0
  /\ call.result.vx = 0 /\ call.result.vy = 0
  /\ call.result.y # call.state.y

\* ------------------------------------------------------------------------
\* C23  The working velocity.
\* ------------------------------------------------------------------------
\* directions and speeds a caller may have persisted: none, right, up, down-left
OtherDirections ==
  { <<0, 0, 0>>, <<NScale, 0, 5000>>, <<0, -NScale, 3000>>, <<-6000, 8000, 1000>> }

\* the state with direction and speed replaced
Redirected(state, d) == [state EXCEPT !.dx = d[1], !.dy = d[2], !.speed = d[3]]

\* the working velocity as claimed: the persisted component if it is a number, else
\* direction times speed
ClaimedVelocity(state) ==
  [vx |-> IF "vx" \in DOMAIN state THEN state.vx
          ELSE RoundDiv(state.dx * state.speed, NScale),
   vy |-> IF "vy" \in DOMAIN state THEN state.vy
          ELSE RoundDiv(state.dy * state.speed, NScale)]

\* C23: step uses state.vx and state.vy as the working velocity where they are numbers and
\* dx * speed, dy * speed otherwise (an airborne step advances the position by it, plus
\* gravity); when vx and vy are both present, a call whose input differs only in dx, dy and
\* speed returns the identical state.
C23_WorkingVelocity ==
  IsStep =>
    /\ call.hits = << >> =>
         /\ call.result.x = call.state.x + ClaimedVelocity(call.state).vx
         /\ call.result.y
              = call.state.y + ClaimedVelocity(call.state).vy + gravityOf(world.opts)
    /\ {"vx", "vy"} \subseteq DOMAIN call.state =>
         \A d \in OtherDirections :
            step(Redirected(call.state, d), world.obstacles, world.opts) = call.result

\* a contact step of a state with vx and vy whose persisted direction pointed out of the
\* bounds at the right edge, and that disagreed with the velocity
C23_Witness ==
  /\ Resolved
  /\ {"vx", "vy"} \subseteq DOMAIN call.state
  /\ call.state.x >= boundsOf(world.opts).width - call.state.r
  /\ call.state.dx > 0
  /\ call.state.vx = 0 /\ call.state.vy > 0
  /\ call.result.vx # 0 \/ call.result.vy # 0

\* an airborne step of a state without vx and vy moved by direction times speed
C23_WitnessDerived ==
  /\ IsStep /\ call.hits = << >>
  /\ DOMAIN call.state \cap {"vx", "vy"} = {}
  /\ call.state.dx # 0 /\ call.state.speed # 0
  /\ call.result.x # call.state.x

\* an airborne step of a state with vx only took vx as given and vy from the direction
C23_WitnessMixed ==
  /\ IsStep /\ call.hits = << >>
  /\ "vx" \in DOMAIN call.state /\ "vy" \notin DOMAIN call.state
  /\ call.state.vx # RoundDiv(call.state.dx * call.state.speed, NScale)
  /\ call.result.x = call.state.x + call.state.vx

\* ------------------------------------------------------------------------
\* C24  closestPointOnSegment.
\* ------------------------------------------------------------------------
ClosestTol == 2

\* the number of equal parts into which a segment is cut to compare distances
Parts == 8

IsClosest == call.op = "closestPointOnSegment"

\* (px - x1, py - y1) . (x2 - x1, y2 - y1) and the squared length of the segment, in
\* 1e-5 px^2
ProjectionDot ==
  (body.x - world.x1) * Coarse(world.x2 - world.x1)
    + (body.y - world.y1) * Coarse(world.y2 - world.y1)

SquaredLength ==
  (world.x2 - world.x1) * Coarse(world.x2 - world.x1)
    + (world.y2 - world.y1) * Coarse(world.y2 - world.y1)

\* the projection parameter clamped to [0, 1], in millionths
ClampedProjection ==
  MulDiv(1000000, Max(0, Min(SquaredLength, ProjectionDot)), SquaredLength)

\* the point of the segment at k / Parts of its length
PointAt(k) ==
  [x |-> world.x1 + RoundDiv((world.x2 - world.x1) * k, Parts),
   y |-> world.y1 + RoundDiv((world.y2 - world.y1) * k, Parts)]

DistanceTo(q) == Hypot(body.x - q.x, body.y - q.y)

\* C24: closestPointOnSegment returns a point of the segment, with parameter t in [0, 1]
\* equal to the projection parameter clamped to [0, 1], and no other point of the segment
\* is closer to the query point; for a zero-length segment it returns the first endpoint
\* with t = 0.
C24_ClosestPoint ==
  IsClosest =>
    /\ 0 <= call.result.tn /\ call.result.tn <= call.result.td
    /\ IF world.x1 = world.x2 /\ world.y1 = world.y2
       THEN /\ call.result.x = world.x1 /\ call.result.y = world.y1
            /\ call.result.tn = 0
       ELSE /\ MulDiv(1000000, call.result.tn, call.result.td) = ClampedProjection
            /\ Abs(call.result.x - world.x1
                     - MulDiv(world.x2 - world.x1, call.result.tn, call.result.td)) <= 1
            /\ Abs(call.result.y - world.y1
                     - MulDiv(world.y2 - world.y1, call.result.tn, call.result.td)) <= 1
    /\ \A k \in 0..Parts : DistanceTo(call.result) <= DistanceTo(PointAt(k)) + ClosestTol

\* a call whose projection fell strictly inside a slanted segment, off the query point
C24_Witness ==
  /\ IsClosest
  /\ world.x1 # world.x2 /\ world.y1 # world.y2
  /\ 0 < call.result.tn /\ call.result.tn < call.result.td
  /\ DistanceTo(call.result) > Px(1)

\* a call whose projection fell past the end of the segment and was clamped to it
C24_WitnessClamped ==
  /\ IsClosest
  /\ ProjectionDot > SquaredLength /\ SquaredLength > 0
  /\ call.result.x = world.x2 /\ call.result.y = world.y2

\* a call on a zero-length segment away from the query point
C24_WitnessZeroLength ==
  /\ IsClosest
  /\ world.x1 = world.x2 /\ world.y1 = world.y2
  /\ DistanceTo(call.result) > Px(1)
  /\ call.result.tn = 0

\* ------------------------------------------------------------------------
\* C25  The zero-normal contact.
\* ------------------------------------------------------------------------
\* C25: when the dominant hit has distance exactly 0, its normal is (0, 0) and step applies
\* no push-out: the returned position is the gravity-advanced tentative position
\* (x + vx, y + vy + gravity), and the result still reports contact.
C25_ZeroNormalContact ==
  (IsStep /\ call.hits # << >> /\ TheHit.dist = 0) =>
    /\ TheHit.nx = 0 /\ TheHit.ny = 0
    /\ call.result.x = call.state.x + call.state.vx
    /\ call.result.y = call.state.y + call.state.vy + gravityOf(world.opts)
    /\ call.result.contact

\* a step whose tentative position lay on the centre line of a segment, inside its
\* thickness, and was returned as it was
C25_Witness ==
  /\ Resolved
  /\ TheHit.dist = 0 /\ TheHit.penetration > 0
  /\ TheHit.kind = "segment"
  /\ call.result.y = call.state.y + call.state.vy + gravityOf(world.opts)

\* a step whose tentative position lay inside a rectangle
C25_WitnessRect ==
  /\ Resolved
  /\ TheHit.dist = 0 /\ TheHit.kind = "rect"
  /\ call.result.y = call.state.y + call.state.vy + gravityOf(world.opts)

\* ------------------------------------------------------------------------
\* C26  Touch input exclusivity.
\* ------------------------------------------------------------------------
\* the event carried a touch in the left half (clientX < width / 2) and one in the right
BothHalves ==
  /\ \E i \in 1..Len(call.touches) : call.touches[i] < world.width \div 2
  /\ \E i \in 1..Len(call.touches) : call.touches[i] >= world.width \div 2

NoFlag == ~host.jump /\ ~host.rotatingLeft /\ ~host.rotatingRight

\* C26: after every touch event, jump is true only if the game was playing and the active
\* touches include one in the left half and one in the right half of the canvas; an event
\* handled while the game is not playing, or one that leaves no active touch, clears jump,
\* rotatingLeft and rotatingRight; and at all times jump excludes both rotation flags and
\* the two rotation flags are never both true.
C26_TouchExclusivity ==
  /\ call.op = "touch" =>
       /\ host.jump => call.host.gameState = "playing" /\ BothHalves
       /\ (call.host.gameState # "playing" \/ call.touches = << >>) => NoFlag
  /\ host.gameState # "none" =>
       /\ host.jump => ~host.rotatingLeft /\ ~host.rotatingRight
       /\ ~(host.rotatingLeft /\ host.rotatingRight)

\* a two-finger event during play set jump and cleared a rotation that was on
C26_Witness ==
  /\ call.op = "touch"
  /\ call.host.gameState = "playing"
  /\ call.host.rotatingLeft
  /\ Len(call.touches) = 2
  /\ host.jump /\ ~host.rotatingLeft /\ ~host.rotatingRight

\* the last finger was lifted during play and the flags were cleared
C26_WitnessReleased ==
  /\ call.op = "touch"
  /\ call.host.gameState = "playing"
  /\ call.host.jump
  /\ call.touches = << >>
  /\ NoFlag

\* an event arrived after the game was over, with a flag still set, and cleared it
C26_WitnessNotPlaying ==
  /\ call.op = "touch"
  /\ call.host.gameState = "gameOver"
  /\ call.host.rotatingLeft \/ call.host.rotatingRight \/ call.host.jump
  /\ call.touches # << >>
  /\ NoFlag

\* ------------------------------------------------------------------------
\* C27  Game over in the frame loop.
\* ------------------------------------------------------------------------
\* the ball at the spawn position, at rest
AtSpawn(b) ==
  /\ b.x = SpawnX(updateLayout(world)) /\ b.y = SpawnY(updateLayout(world), b.r)
  /\ b.vx = 0 /\ b.vy = 0

\* lasers, difficulty and score as a new game has them at time t
FreshGame(h, t) ==
  /\ h.lasers = << >>
  /\ h.nextLaserSpawnTime = t + BASE_LASER_SPAWN_INTERVAL
  /\ h.difficulty.gameStartTime = t
  /\ h.difficulty.currentMaxSpeed = BASE_MAX_SPEED
  /\ h.difficulty.currentLaserSpawnInterval = BASE_LASER_SPAWN_INTERVAL
  /\ h.score.score = 0

\* C27: a playing frame after whose physics step the ball's y is >= canvas height - r sets
\* the game state to gameOver within that frame; while the game state is not playing no
\* frame performs a physics step, a platform rotation update or a score update; and the
\* state returns to playing only through the start button, which also resets ball, lasers,
\* difficulty and score.
C27_GameOverHandling ==
  [][ /\ (n' = n + 1 /\ body'.y >= world.height - body'.r) => host'.gameState = "gameOver"
      /\ host.gameState # "playing" =>
           /\ n' = n /\ call'.op # "frame"
           /\ call'.op = "idle" =>
                /\ body' = body /\ host'.alpha = host.alpha
                /\ host'.score = host.score /\ host'.highScore = host.highScore
      /\ (host.gameState # "playing" /\ host'.gameState = "playing") =>
           /\ call'.op = "start"
           /\ AtSpawn(body')
           /\ FreshGame(host', host'.now)
    ]_vars

\* a playing frame ended with the ball on the ground and the game over
C27_Witness ==
  /\ call.op = "frame"
  /\ call.host.gameState = "playing"
  /\ body.y >= world.height - body.r
  /\ host.gameState = "gameOver"

\* after a game that had a laser on the screen and a score, the start button began a new
\* game
C27_WitnessRestart ==
  /\ call.op = "start"
  /\ call.host.gameState = "gameOver"
  /\ call.host.lasers # << >> /\ call.host.score.score > 0 /\ call.host.alpha # 0
  /\ call.host.difficulty.gameStartTime # host.difficulty.gameStartTime
  /\ host.gameState = "playing"
  /\ FreshGame(host, host.now) /\ AtSpawn(body)

\* a frame drawn after the game was over
C27_WitnessIdle ==
  /\ call.op = "idle"
  /\ host.gameState = "gameOver"

\* ------------------------------------------------------------------------
\* C28  ScoreTracker.
\* ------------------------------------------------------------------------
\* the score is the number of whole seconds from the last start() to the last update, it
\* did not decrease in that update, and start() resets it to 0
ScoreCounts ==
  /\ (call.op = "update" /\ start >= 0) =>
       /\ getScore(body) = (call.timestamp - start) \div 1000
       /\ getScore(body) >= getScore(call.before)
  /\ call.op = "start" => getScore(body) = 0

\* C28: after start() at time t0 and any sequence of update(t) calls with non-decreasing
\* timestamps t >= t0, getScore() equals floor((t_last - t0) / 1000); the score never
\* decreases between two start() calls and start() resets it to 0.
C28_ScoreCounts == ScoreCounts

\* the same for a start() at a time other than 0, which holds
C28_ScoreCountsFromNonZero == start # 0 => ScoreCounts

\* a tracker started at a time other than 0 counted several seconds over several updates
C28_WitnessFromNonZero ==
  /\ call.op = "update"
  /\ start > 0
  /\ getScore(call.before) > 0
  /\ getScore(body) > getScore(call.before) + 1

\* a tracker started at time 0 was updated more than a second later
C28_WitnessFromZero ==
  /\ call.op = "update"
  /\ start = 0
  /\ call.timestamp >= 1000
  /\ getScore(body) = 0

\* ------------------------------------------------------------------------
\* C29  Difficulty bounds.
\* ------------------------------------------------------------------------
WithinBounds(ds) ==
  /\ MIN_LASER_SPAWN_INTERVAL <= ds.laserSpawnInterval
  /\ ds.laserSpawnInterval <= BASE_LASER_SPAWN_INTERVAL
  /\ ds.currentMaxSpeed >= BASE_MAX_SPEED

AtBase(ds) ==
  /\ ds.laserSpawnInterval = BASE_LASER_SPAWN_INTERVAL
  /\ ds.currentMaxSpeed = BASE_MAX_SPEED

\* at most 10 seconds from the game start time to the time of the last call
EarlyGame == n - body.gameStartTime <= 10000

\* The claim as stated: after any sequence of initDifficulty, resetDifficulty and
\* updateDifficulty calls, laserSpawnInterval is within [MIN_LASER_SPAWN_INTERVAL,
\* BASE_LASER_SPAWN_INTERVAL] and currentMaxSpeed >= BASE_MAX_SPEED; both equal their base
\* values while at most 10 seconds have elapsed since the game start time, and immediately
\* after resetDifficulty.
C29_BaseWhileEarly ==
  /\ WithinBounds(getDifficultyState(body))
  /\ EarlyGame => AtBase(getDifficultyState(body))
  /\ call.op = "resetDifficulty" => AtBase(getDifficultyState(body))

\* C29: after any sequence of initDifficulty, resetDifficulty and updateDifficulty calls,
\* laserSpawnInterval is within [MIN_LASER_SPAWN_INTERVAL, BASE_LASER_SPAWN_INTERVAL] and
\* currentMaxSpeed >= BASE_MAX_SPEED; both equal their base values after every
\* updateDifficulty call whose timestamp is at most 10 seconds past the game start time,
\* and immediately after resetDifficulty; after an updateDifficulty call later than that
\* the speed is above its base value.
C29_DifficultyBounds ==
  /\ WithinBounds(getDifficultyState(body))
  /\ (call.op = "updateDifficulty" /\ EarlyGame) => AtBase(getDifficultyState(body))
  /\ (call.op = "updateDifficulty" /\ ~EarlyGame) =>
       getDifficultyState(body).currentMaxSpeed > BASE_MAX_SPEED
  /\ call.op = "resetDifficulty" => AtBase(getDifficultyState(body))

\* an update late in a game brought the spawn interval to its floor
C29_Witness ==
  /\ call.op = "updateDifficulty"
  /\ call.before.currentLaserSpawnInterval > MIN_LASER_SPAWN_INTERVAL
  /\ call.before.currentLaserSpawnInterval < BASE_LASER_SPAWN_INTERVAL
  /\ getDifficultyState(body).laserSpawnInterval = MIN_LASER_SPAWN_INTERVAL
  /\ getDifficultyState(body).currentMaxSpeed > BASE_MAX_SPEED

\* a reset brought ramped values back to base
C29_WitnessReset ==
  /\ call.op = "resetDifficulty"
  /\ ~AtBase(getDifficultyState(call.before))
  /\ AtBase(getDifficultyState(body))

\* initDifficulty set the game start time after an update had ramped the values
C29_WitnessLateInit ==
  /\ call.op = "initDifficulty"
  /\ call.before.gameStartTime = 0 /\ body.gameStartTime > 0
  /\ EarlyGame
  /\ ~AtBase(getDifficultyState(body))

\* ------------------------------------------------------------------------
\* C30  Design selection.
\* ------------------------------------------------------------------------
\* the score that unlocks a design
UnlockScore(designId) ==
  CASE designId = 0 -> 0 [] designId = 1 -> 20 [] designId = 2 -> 50
    [] designId = 3 -> 100 [] designId = 4 -> 200 [] OTHER -> 9999

IsOverlay == call.op \in {"click", "setGameState", "updateScoreDisplay"}

\* C30: after init and any sequence of design-button clicks, game-state changes and
\* score-display updates with non-negative high scores, the selected design is not a locked
\* one: its unlock score is <= the high score last used to render the buttons; a click on a
\* locked button changes neither the selection nor invokes the design-change callback; and
\* the design id last passed to the callback is the selected design.
C30_DesignSelection ==
  "currentDesignId" \in DOMAIN host =>
    /\ UnlockScore(host.currentDesignId) <= host.lastKnownHighScore
    /\ host.locked = { id \in Designs : UnlockScore(id) > host.lastKnownHighScore }
    /\ (call.op = "click" /\ UnlockScore(call.designId) > call.before.lastKnownHighScore) =>
         /\ host.currentDesignId = call.before.currentDesignId
         /\ host.callbacks = call.before.callbacks
    /\ host.passed # -1 => host.passed = host.currentDesignId

\* a click on a locked button, with another design than the default selected
C30_Witness ==
  /\ call.op = "click"
  /\ call.designId \in call.before.locked
  /\ call.before.currentDesignId # 0
  /\ host = call.before

\* the buttons were rendered again from a lower high score that locks the selected design:
\* the selection fell back to design 0 and the callback was told
C30_WitnessFallback ==
  /\ call.op = "setGameState"
  /\ call.before.currentDesignId > 0
  /\ host.lastKnownHighScore < UnlockScore(call.before.currentDesignId)
  /\ host.currentDesignId = 0 /\ host.passed = 0
  /\ host.callbacks = call.before.callbacks + 1

\* a score-display update with a higher high score unlocked a design, which was then clicked
C30_WitnessUnlocked ==
  /\ call.op = "click"
  /\ call.designId = 4
  /\ host.currentDesignId = 4 /\ host.passed = 4

====
